---------------------------- MODULE Spec2Model ----------------------------
(***************************************************************************)
(* Catapult: Central (webhook intake, authorization, dispatch, status      *)
(* intake) and Worker (build / cleanup handlers), modelled from the Rust   *)
(* sources.  Strings whose characters matter (host names, patterns, zone   *)
(* and organization names) are sequences of one-character strings.         *)
(***************************************************************************)
EXTENDS Integers, Sequences, FiniteSets, TLC

VARIABLES
    auth,   \* shared/auth.rs exercised on one request: what was signed, what is verified
    gate,   \* central/db/models.rs AuthorizedOrg exercised on one (row, zone / host)
    http,   \* one request at one signed endpoint and the status code it was answered with
    authorized_orgs,    \* Central database: table authorized_orgs
    workers,            \* Central database: table workers
    pr_comments,        \* Central database: table pr_comments
    job_context,        \* Central database: table job_context
    deployment_status,  \* Central database: what update_deployment_status wrote, per job
    gh_comments,        \* GitHub: the issue comments; a comment's id is its index
    tasks,              \* Central: the tokio tasks running process_webhook_event
    worker_jobs,        \* Worker: the tokio tasks running execute_build / execute_cleanup
    status_tasks,       \* Central: the tokio tasks running process_status_update
    sites_dir,          \* Worker host: the entries of config.sites_dir, by name
    caddy_routes,       \* Caddy: the ordered route list of server "main"
    worker_tasks,       \* Worker: execute_build / execute_cleanup tasks, one step per .await
    status_sent,        \* Worker: per accepted job, the status updates it has sent
    worker_run,         \* Worker: where the process is in worker/server.rs run()
    pool,               \* Central: the clock, the running process's worker map, the last call on table workers
    monitor,            \* Central: the WorkerMonitor task of the running process
    calc,               \* one pure function applied to one input, and its result
    tunnel,             \* Cloudflare: the tunnel's ingress list, and the ensure_route calls in flight
    iptables            \* Worker host: the filter table, the podman networks, the ensure_build_network call

(***************************************************************************)
(* Option<T>: None is the empty tuple, Some(v) the one-element tuple.  An   *)
(* HTTP header that may be missing is an Option as well.                   *)
(***************************************************************************)
None == <<>>
Some(v) == <<v>>
is_some(o) == Len(o) = 1
is_none(o) == Len(o) = 0
unwrap(o) == o[1]

(***************************************************************************)
(* Character strings.                                                      *)
(***************************************************************************)
UpperChars == <<"A","B","C","D","E","F","G","H","I","J","K","L","M",
                "N","O","P","Q","R","S","T","U","V","W","X","Y","Z">>
LowerChars == <<"a","b","c","d","e","f","g","h","i","j","k","l","m",
                "n","o","p","q","r","s","t","u","v","w","x","y","z">>

\* char::to_lowercase on the ASCII range; every other character is kept
LowerChar(c) ==
    IF \E i \in 1..Len(UpperChars) : UpperChars[i] = c
    THEN LowerChars[CHOOSE i \in 1..Len(UpperChars) : UpperChars[i] = c]
    ELSE c

\* str::to_lowercase
to_lowercase(s) == [i \in 1..Len(s) |-> LowerChar(s[i])]

\* str::eq_ignore_ascii_case: same length and the same characters after folding
eq_ignore_ascii_case(a, b) ==
    /\ Len(a) = Len(b)
    /\ \A i \in 1..Len(a) : LowerChar(a[i]) = LowerChar(b[i])

\* str::starts_with
starts_with(s, p) ==
    /\ Len(p) <= Len(s)
    /\ \A i \in 1..Len(p) : s[i] = p[i]

\* str::ends_with
ends_with(s, p) ==
    /\ Len(p) <= Len(s)
    /\ \A i \in 1..Len(p) : s[Len(s) - Len(p) + i] = p[i]

\* &s[n..] of a string with at least n bytes
from_index(s, n) == SubSeq(s, n + 1, Len(s))

\* the strings over alphabet A of length at most n
StringsUpTo(A, n) == UNION {[1..k -> A] : k \in 0..n}

DigitChars == <<"0","1","2","3","4","5","6","7","8","9">>
is_digit(c) == \E i \in 1..10 : DigitChars[i] = c
digit_value(c) == (CHOOSE i \in 1..10 : DigitChars[i] = c) - 1

\* u64::to_string / u32::to_string: the decimal digits, no sign, no padding
RECURSIVE to_string(_)
to_string(n) ==
    IF n < 10 THEN <<DigitChars[n + 1]>>
    ELSE to_string(n \div 10) \o <<DigitChars[(n % 10) + 1]>>

RECURSIVE digits_value(_)
digits_value(s) ==
    IF Len(s) = 0 THEN 0
    ELSE 10 * digits_value(SubSeq(s, 1, Len(s) - 1)) + digit_value(s[Len(s)])

\* str::parse::<u64>: an optional "+", then at least one digit and only digits
\* (the values used stay far below 2^64)
parse_u64(s) ==
    LET t == IF Len(s) > 0 /\ s[1] = "+" THEN Tail(s) ELSE s
    IN  IF Len(t) > 0 /\ \A i \in 1..Len(t) : is_digit(t[i])
        THEN Some(digits_value(t))
        ELSE None

(***************************************************************************)
(* shared/auth.rs                                                          *)
(***************************************************************************)
MAX_SIGNATURE_AGE_SECS == 300
FUTURE_TOLERANCE_SECS == 60

\* u64::saturating_sub
saturating_sub(a, b) == IF a >= b THEN a - b ELSE 0

\* HMAC-SHA256 over BE64(timestamp) || body, hex-encoded behind "sha256=".  The
\* timestamp takes exactly eight bytes, so (timestamp, body) is recovered from
\* the MAC input; the MAC itself is taken as collision-free and unforgeable.
compute_signature(secret, body, timestamp) ==
    [scheme |-> "sha256=", key |-> secret, msg |-> <<timestamp, body>>]

\* sign_request at wall-clock time now
sign_request(secret, body, now) ==
    [signature |-> compute_signature(secret, body, now), timestamp |-> now]

\* constant_time_eq: equal lengths and no differing byte
constant_time_eq(a, b) == a = b

verify_signature_off_by_one(secret, body, signature, timestamp, now) ==
    IF saturating_sub(now, timestamp) >= MAX_SIGNATURE_AGE_SECS THEN FALSE
    ELSE IF timestamp > now + FUTURE_TOLERANCE_SECS THEN FALSE
    ELSE constant_time_eq(signature, compute_signature(secret, body, timestamp))

verify_signature(secret, body, signature, timestamp, now) ==
    IF saturating_sub(now, timestamp) > MAX_SIGNATURE_AGE_SECS THEN FALSE
    ELSE IF timestamp > now + FUTURE_TOLERANCE_SECS THEN FALSE
    ELSE constant_time_eq(signature, compute_signature(secret, body, timestamp))

\* GitHub's X-Hub-Signature-256: HMAC-SHA256 over the payload alone
verify_github_signature(secret, payload, signature) ==
    constant_time_eq(signature, [scheme |-> "sha256=", key |-> secret, msg |-> <<payload>>])

(***************************************************************************)
(* central/db/models.rs                                                    *)
(***************************************************************************)
can_use_zone(zones, zone) ==
    \E i \in 1..Len(zones) : eq_ignore_ascii_case(zones[i], zone)

pattern_matches_without_dot(pattern, domain) ==
    LET domain_lower == to_lowercase(domain)
        pattern_lower == to_lowercase(pattern)
    IN  IF starts_with(pattern_lower, <<"*", ".">>)
        THEN LET suffix == from_index(pattern_lower, 2)
             IN  \/ ends_with(domain_lower, suffix) /\ Len(domain_lower) > Len(suffix)
                 \/ domain_lower = from_index(pattern_lower, 2)
        ELSE domain_lower = pattern_lower

\* the closure of can_use_domain: one pattern against the domain
pattern_matches(pattern, domain) ==
    LET domain_lower == to_lowercase(domain)
        pattern_lower == to_lowercase(pattern)
    IN  IF starts_with(pattern_lower, <<"*", ".">>)
        THEN LET suffix == from_index(pattern_lower, 1)
             IN  \/ ends_with(domain_lower, suffix) /\ Len(domain_lower) > Len(suffix)
                 \/ domain_lower = from_index(pattern_lower, 2)
        ELSE domain_lower = pattern_lower

can_use_domain(domain_patterns, domain) ==
    \E i \in 1..Len(domain_patterns) : pattern_matches(domain_patterns[i], domain)

(***************************************************************************)
(* HTTP front doors.  A request is [signature, timestamp, event, body]:    *)
(* the three headers are Options, the body is the bytes received, taken as *)
(* the JSON value they encode ([shape |-> ...]).  A handler's outcome is   *)
(* the status code and what it hands to tokio::spawn, if anything.         *)
(***************************************************************************)
github_webhook_secret == "webhook-secret"
worker_shared_secret == "worker-secret"

Answer(code, spawned) == [code |-> code, spawn |-> spawned]

\* ts.to_str().unwrap_or("0").parse().unwrap_or(0)
timestamp_header_value(text) ==
    LET parsed == parse_u64(text) IN IF is_some(parsed) THEN unwrap(parsed) ELSE 0

\* central/github/webhook.rs verify_webhook_signature
verify_webhook_signature(secret, payload, signature) ==
    verify_github_signature(secret, payload, signature)

\* central/github/webhook.rs parse_webhook_event: Some(event) or None for a serde error
parse_webhook_event(event_type, payload) ==
    CASE event_type = "pull_request" ->
            IF payload.shape = "PullRequestEvent"
            THEN Some([kind |-> "PullRequest", payload |-> payload]) ELSE None
      [] event_type = "push" ->
            IF payload.shape = "PushEvent"
            THEN Some([kind |-> "Push", payload |-> payload]) ELSE None
      [] event_type = "ping" -> Some([kind |-> "Ping", payload |-> [shape |-> "ignored"]])
      [] OTHER -> Some([kind |-> "Unknown", payload |-> [shape |-> "ignored"]])

\* serde_json::from_slice::<T>(&body): Some(value) or None
from_slice(shape, body) == IF body.shape = shape THEN Some(body) ELSE None

handle_webhook_spawn_first(req) ==
    IF is_none(req.signature) THEN Answer(401, None)
    ELSE IF is_none(req.event) THEN Answer(400, None)
    ELSE LET event == parse_webhook_event(unwrap(req.event), req.body)
         IN  IF ~verify_webhook_signature(github_webhook_secret, req.body, unwrap(req.signature))
             THEN Answer(401, event)
             ELSE IF is_none(event) THEN Answer(400, None)
             ELSE Answer(200, event)

\* central/handlers/webhook.rs handle_webhook
handle_webhook(req) ==
    IF is_none(req.signature) THEN Answer(401, None)
    ELSE IF is_none(req.event) THEN Answer(400, None)
    ELSE IF ~verify_webhook_signature(github_webhook_secret, req.body, unwrap(req.signature))
    THEN Answer(401, None)
    ELSE LET event == parse_webhook_event(unwrap(req.event), req.body)
         IN  IF is_none(event) THEN Answer(400, None)
             ELSE Answer(200, event)

\* the shape shared by handle_status, handle_heartbeat, handle_build, handle_cleanup:
\* signature header, timestamp header, verify_signature, from_slice, then the work
signed_handler(req, now, shape, accepted) ==
    IF is_none(req.signature) THEN Answer(401, None)
    ELSE IF is_none(req.timestamp) THEN Answer(401, None)
    ELSE LET timestamp == timestamp_header_value(unwrap(req.timestamp))
         IN  IF ~verify_signature(worker_shared_secret, req.body,
                                  unwrap(req.signature), timestamp, now)
             THEN Answer(401, None)
             ELSE LET parsed == from_slice(shape, req.body)
                  IN  IF is_none(parsed) THEN Answer(400, None)
                      ELSE Answer(accepted, parsed)

\* central/handlers/status.rs handle_status
handle_status(req, now) == signed_handler(req, now, "StatusUpdate", 200)

\* central/handlers/heartbeat.rs handle_heartbeat, up to the parsed request; the
\* answer to a parsed request (200 or 404) is update_worker_heartbeat's
handle_heartbeat(req, now) == signed_handler(req, now, "HeartbeatRequest", 200)

\* worker/handlers/build.rs handle_build
handle_build(req, now) == signed_handler(req, now, "BuildJob", 202)

\* worker/handlers/cleanup.rs handle_cleanup
handle_cleanup(req, now) == signed_handler(req, now, "CleanupJob", 202)

(***************************************************************************)
(* shared/types.rs: DeployConfig, site ids, preview URLs.                  *)
(***************************************************************************)
\* str::replace: every non-overlapping match of from, left to right
RECURSIVE replace(_, _, _)
replace(s, from, to) ==
    IF Len(s) < Len(from) THEN s
    ELSE IF starts_with(s, from) THEN to \o replace(from_index(s, Len(from)), from, to)
    ELSE <<Head(s)>> \o replace(Tail(s), from, to)

\* impl Default for DeployConfig
DefaultDeployConfig ==
    [zone |-> None, domain_pattern |-> None, pr_pattern |-> None, domain |-> None,
     subdomain |-> None, build_type |-> None, build_command |-> None,
     output_dir |-> None, enabled |-> TRUE]

\* a merge that keeps self's enabled
merge_keeping_enabled(self, other) ==
    [zone           |-> IF is_some(other.zone) THEN other.zone ELSE self.zone,
     domain_pattern |-> IF is_some(other.domain_pattern) THEN other.domain_pattern
                        ELSE self.domain_pattern,
     pr_pattern     |-> IF is_some(other.pr_pattern) THEN other.pr_pattern ELSE self.pr_pattern,
     domain         |-> IF is_some(other.domain) THEN other.domain ELSE self.domain,
     subdomain      |-> IF is_some(other.subdomain) THEN other.subdomain ELSE self.subdomain,
     build_type     |-> IF is_some(other.build_type) THEN other.build_type ELSE self.build_type,
     build_command  |-> IF is_some(other.build_command) THEN other.build_command
                        ELSE self.build_command,
     output_dir     |-> IF is_some(other.output_dir) THEN other.output_dir ELSE self.output_dir,
     enabled        |-> self.enabled]

\* DeployConfig::merge: self is overwritten by what other sets
merge(self, other) ==
    [zone           |-> IF is_some(other.zone) THEN other.zone ELSE self.zone,
     domain_pattern |-> IF is_some(other.domain_pattern) THEN other.domain_pattern
                        ELSE self.domain_pattern,
     pr_pattern     |-> IF is_some(other.pr_pattern) THEN other.pr_pattern ELSE self.pr_pattern,
     domain         |-> IF is_some(other.domain) THEN other.domain ELSE self.domain,
     subdomain      |-> IF is_some(other.subdomain) THEN other.subdomain ELSE self.subdomain,
     build_type     |-> IF is_some(other.build_type) THEN other.build_type ELSE self.build_type,
     build_command  |-> IF is_some(other.build_command) THEN other.build_command
                        ELSE self.build_command,
     output_dir     |-> IF is_some(other.output_dir) THEN other.output_dir ELSE self.output_dir,
     enabled        |-> other.enabled]

\* a resolution in which the pattern is looked at before the explicit domain
resolve_domain_pattern_first(self, repo) ==
    IF is_some(self.domain_pattern)
    THEN Some(replace(unwrap(self.domain_pattern), <<"{", "r", "e", "p", "o", "}">>, to_lowercase(repo)))
    ELSE IF is_some(self.domain)
    THEN IF is_some(self.subdomain)
         THEN Some(unwrap(self.subdomain) \o <<".">> \o unwrap(self.domain))
         ELSE Some(unwrap(self.domain))
    ELSE None

\* DeployConfig::resolve_domain
resolve_domain(self, repo) ==
    IF is_some(self.domain)
    THEN IF is_some(self.subdomain)
         THEN Some(unwrap(self.subdomain) \o <<".">> \o unwrap(self.domain))
         ELSE Some(unwrap(self.domain))
    ELSE IF is_some(self.domain_pattern)
    THEN Some(replace(unwrap(self.domain_pattern), <<"{", "r", "e", "p", "o", "}">>, to_lowercase(repo)))
    ELSE None

\* DeployConfig::resolve_pr_domain
resolve_pr_domain(self, repo, pr_number) ==
    IF is_some(self.pr_pattern)
    THEN Some(replace(replace(unwrap(self.pr_pattern), <<"{", "r", "e", "p", "o", "}">>, to_lowercase(repo)),
                      <<"{", "p", "r", "}">>, to_string(pr_number)))
    ELSE IF is_some(resolve_domain(self, repo))
    THEN Some(<<"p", "r", "-">> \o to_string(pr_number) \o <<"-">> \o to_lowercase(repo)
              \o <<".">> \o unwrap(resolve_domain(self, repo)))
    ELSE None

\* DeployConfig::is_deployable
is_deployable(self) == self.enabled /\ is_some(self.zone)

\* generate_site_id
generate_site_id(org, repo, pr_number) ==
    IF is_some(pr_number)
    THEN to_lowercase(org) \o <<"-">> \o to_lowercase(repo) \o <<"-", "p", "r", "-">> \o to_string(unwrap(pr_number))
    ELSE to_lowercase(org) \o <<"-">> \o to_lowercase(repo) \o <<"-", "m", "a", "i", "n">>

\* generate_preview_url
generate_preview_url(domain, repo, pr_number) ==
    IF is_some(pr_number)
    THEN <<"h", "t", "t", "p", "s", ":", "/", "/", "p", "r", "-">> \o to_string(unwrap(pr_number)) \o <<"-">> \o to_lowercase(repo)
         \o <<".">> \o domain
    ELSE <<"h", "t", "t", "p", "s", ":", "/", "/">> \o domain

(***************************************************************************)
(* central/deploy_config.rs                                                *)
(***************************************************************************)
\* fetch_deploy_config, given what the two fetch_config_file calls returned
\* (None: 404).  A failed fetch ends the caller before this.
fetch_deploy_config(org_config, repo_config) ==
    IF is_none(org_config) /\ is_none(repo_config) THEN None
    ELSE IF is_none(repo_config) THEN org_config
    ELSE IF is_none(org_config) THEN repo_config
    ELSE Some(merge(unwrap(org_config), unwrap(repo_config)))

(***************************************************************************)
(* central/github/api.rs: the three comment bodies.                        *)
(***************************************************************************)
\* &commit_sha[..7.min(commit_sha.len())]
sha7(commit_sha) == SubSeq(commit_sha, 1, IF Len(commit_sha) < 7 THEN Len(commit_sha) ELSE 7)

building_comment(commit_sha) ==
    [kind |-> "Deployment in progress", commit |-> sha7(commit_sha), detail |-> <<>>]
success_comment(commit_sha, deployed_url) ==
    [kind |-> "Deployment successful", commit |-> sha7(commit_sha), detail |-> deployed_url]
failure_comment(commit_sha, error) ==
    [kind |-> "Deployment failed", commit |-> sha7(commit_sha), detail |-> error]

(***************************************************************************)
(* central/db/queries.rs.  A table is the set of its rows.  A query that   *)
(* fetch_optional()s returns the set of answers the database may give:     *)
(* {None} when no row matches, otherwise Some of any matching row.         *)
(***************************************************************************)
fetch_optional(rows) == IF rows = {} THEN {None} ELSE {Some(r) : r \in rows}

\* WHERE environment = $1 AND enabled = true
get_worker(workers_table, environment) ==
    fetch_optional({w \in workers_table : w.environment = environment /\ w.enabled})

get_authorized_org_any(table, github_org) ==
    fetch_optional({r \in table : to_lowercase(r.github_org) = to_lowercase(github_org)})

\* WHERE LOWER(github_org) = LOWER($1) AND enabled = true
get_authorized_org(table, github_org) ==
    fetch_optional({r \in table : /\ to_lowercase(r.github_org) = to_lowercase(github_org)
                                  /\ r.enabled})

\* INSERT ... ON CONFLICT (github_org) DO UPDATE SET zones, domain_patterns, enabled = true
upsert_authorized_org(table, github_org, zones, domain_patterns) ==
    {r \in table : r.github_org # github_org}
    \cup {[github_org |-> github_org, zones |-> zones,
           domain_patterns |-> domain_patterns, enabled |-> TRUE]}

\* UPDATE authorized_orgs SET enabled = false WHERE LOWER(github_org) = LOWER($1)
delete_authorized_org(table, github_org) ==
    {IF to_lowercase(r.github_org) = to_lowercase(github_org)
     THEN [r EXCEPT !.enabled = FALSE] ELSE r : r \in table}

\* SELECT comment_id ... WHERE LOWER(org) = LOWER($1) AND LOWER(repo) = LOWER($2) AND pr_number = $3
get_pr_comment(table, org, repo, pr_number) ==
    fetch_optional({r.comment_id : r \in
        {r \in table : /\ to_lowercase(r.github_org) = to_lowercase(org)
                       /\ to_lowercase(r.github_repo) = to_lowercase(repo)
                       /\ r.pr_number = pr_number}})

\* INSERT ... ON CONFLICT (github_org, github_repo, pr_number) DO UPDATE SET comment_id
upsert_pr_comment(table, org, repo, pr_number, comment_id) ==
    {r \in table : ~(r.github_org = org /\ r.github_repo = repo /\ r.pr_number = pr_number)}
    \cup {[github_org |-> org, github_repo |-> repo, pr_number |-> pr_number,
           comment_id |-> comment_id]}

delete_pr_comment_exact(table, org, repo, pr_number) ==
    {r \in table : ~(r.github_org = org /\ r.github_repo = repo /\ r.pr_number = pr_number)}

\* DELETE FROM pr_comments WHERE LOWER(org) = LOWER($1) AND LOWER(repo) = LOWER($2) AND pr_number = $3
delete_pr_comment(table, org, repo, pr_number) ==
    {r \in table : ~(/\ to_lowercase(r.github_org) = to_lowercase(org)
                     /\ to_lowercase(r.github_repo) = to_lowercase(repo)
                     /\ r.pr_number = pr_number)}

\* an upsert that takes the new comment id even when it is null
store_job_context_overwrite(table, job_id, installation_id, org, repo, comment_id, commit_sha) ==
    IF \E r \in table : r.job_id = job_id
    THEN {IF r.job_id = job_id THEN [r EXCEPT !.github_comment_id = comment_id] ELSE r
          : r \in table}
    ELSE table \cup {[job_id |-> job_id, installation_id |-> installation_id,
                      github_org |-> org, github_repo |-> repo,
                      github_comment_id |-> comment_id, commit_sha |-> commit_sha]}

\* INSERT ... ON CONFLICT (job_id) DO UPDATE SET
\*   github_comment_id = COALESCE(EXCLUDED.github_comment_id, job_context.github_comment_id)
store_job_context(table, job_id, installation_id, org, repo, comment_id, commit_sha) ==
    IF \E r \in table : r.job_id = job_id
    THEN {IF r.job_id = job_id
          THEN [r EXCEPT !.github_comment_id =
                    IF is_some(comment_id) THEN comment_id ELSE r.github_comment_id]
          ELSE r : r \in table}
    ELSE table \cup {[job_id |-> job_id, installation_id |-> installation_id,
                      github_org |-> org, github_repo |-> repo,
                      github_comment_id |-> comment_id, commit_sha |-> commit_sha]}

\* SELECT ... FROM job_context WHERE job_id = $1
get_job_context(table, job_id) == fetch_optional({r \in table : r.job_id = job_id})

(***************************************************************************)
(* verify_signature on one request: a request is signed, possibly changed  *)
(* in one place on the way, and verified at some later or earlier time.    *)
(***************************************************************************)
MaxSkew == 2
SignTime == 1000
MaxStrLen == 3

Secrets == {"worker-secret", "wrong-secret"}
Bodies == {[shape |-> "test-body"], [shape |-> "other-body"]}
BogusSignature == [scheme |-> "sha256=", key |-> "invalid", msg |-> <<>>]

\* clock offsets around the two edges of the freshness window
Skews == {0} \cup UNION {{MAX_SIGNATURE_AGE_SECS - k, MAX_SIGNATURE_AGE_SECS + k,
                          -(FUTURE_TOLERANCE_SECS - k), -(FUTURE_TOLERANCE_SECS + k)}
                         : k \in 0..MaxSkew}

AuthInit ==
    auth \in {[phase |-> "start", secret |-> s, body |-> b, signature |-> BogusSignature,
               timestamp |-> 0, changed |-> "nothing", now |-> SignTime, result |-> FALSE]
              : s \in Secrets, b \in Bodies}

AuthSign ==
    /\ auth.phase = "start"
    /\ LET signed == sign_request(auth.secret, auth.body, auth.now)
       IN  auth' = [auth EXCEPT !.phase = "signed",
                                !.signature = signed.signature,
                                !.timestamp = signed.timestamp]

AuthChange ==
    /\ auth.phase = "signed"
    /\ auth.changed = "nothing"
    /\ \/ \E b \in Bodies \ {auth.body} :
             auth' = [auth EXCEPT !.changed = "body", !.body = b]
       \/ \E s \in Secrets \ {auth.secret} :
             auth' = [auth EXCEPT !.changed = "secret", !.secret = s]
       \/ \E g \in ({BogusSignature}
                     \cup {compute_signature(s, b, auth.timestamp) : s \in Secrets, b \in Bodies})
                    \ {auth.signature} :
             auth' = [auth EXCEPT !.changed = "signature", !.signature = g]
       \/ \E t \in {auth.timestamp - 1, auth.timestamp + 1, 0} :
             auth' = [auth EXCEPT !.changed = "timestamp", !.timestamp = t]

AuthVerify ==
    /\ auth.phase = "signed"
    /\ \E d \in Skews :
         LET now == SignTime + d
         IN  auth' = [auth EXCEPT !.phase = "verified", !.now = now,
                         !.result = verify_signature(auth.secret, auth.body,
                                                     auth.signature, auth.timestamp, now)]

(***************************************************************************)
(* can_use_zone / can_use_domain on one authorization row.                 *)
(***************************************************************************)
GateAlphabet == {"a", "B", ".", "*"}
GateStrings == StringsUpTo(GateAlphabet, MaxStrLen)
GatePool == {<<"*", ".", "a">>, <<"a">>, <<"B", ".", "a">>}
GateLists == {<<>>} \cup {<<p>> : p \in GateStrings} \cup {<<p, q>> : p, q \in GatePool}

GateInit ==
    gate \in {[op |-> "start", list |-> l, arg |-> a, result |-> FALSE]
              : l \in GateLists, a \in GateStrings}

GateCheckZone ==
    /\ gate.op = "start"
    /\ gate' = [gate EXCEPT !.op = "zone", !.result = can_use_zone(gate.list, gate.arg)]

GateCheckDomain ==
    /\ gate.op = "start"
    /\ gate' = [gate EXCEPT !.op = "domain", !.result = can_use_domain(gate.list, gate.arg)]

(***************************************************************************)
(* One request at one signed endpoint.  The sender signs the body at       *)
(* SignTime; the headers that arrive may be missing or garbled, and the    *)
(* receiver's clock may be off.                                            *)
(***************************************************************************)
Endpoints == {"/webhook/github", "/api/status", "/api/workers/heartbeat", "/build", "/cleanup"}
MutualEndpoints == Endpoints \ {"/webhook/github"}

HttpBodies ==
    {[shape |-> x] : x \in {"garbage", "PullRequestEvent", "PushEvent", "StatusUpdate",
                            "HeartbeatRequest", "BuildJob", "CleanupJob"}}

TimestampTexts == {to_string(SignTime), <<"a", "b", "c">>, <<>>, <<"1", "x">>}

WebhookRequests ==
    {[signature |-> g, timestamp |-> None, event |-> e, body |-> b]
     : g \in {None, Some(BogusSignature)}
            \cup {Some([scheme |-> "sha256=", key |-> k, msg |-> <<b2>>])
                  : k \in {github_webhook_secret, "wrong-secret"}, b2 \in HttpBodies},
       e \in {None, Some("pull_request"), Some("push"), Some("ping"), Some("issues")},
       b \in HttpBodies}

MutualRequests ==
    {[signature |-> g, timestamp |-> t, event |-> None, body |-> b]
     : g \in {None, Some(BogusSignature)}
            \cup {Some(compute_signature(k, b2, SignTime))
                  : k \in Secrets, b2 \in HttpBodies},
       t \in {None} \cup {Some(x) : x \in TimestampTexts},
       b \in HttpBodies}

HttpInit == http = [endpoint |-> "none"]

HttpWebhook ==
    /\ http.endpoint = "none"
    /\ \E req \in WebhookRequests, d \in Skews :
         http' = [endpoint |-> "/webhook/github", req |-> req, now |-> SignTime + d,
                  code |-> handle_webhook(req).code,
                  spawned |-> is_some(handle_webhook(req).spawn)]

HttpStatus ==
    /\ http.endpoint = "none"
    /\ \E req \in MutualRequests, d \in Skews :
         http' = [endpoint |-> "/api/status", req |-> req, now |-> SignTime + d,
                  code |-> handle_status(req, SignTime + d).code,
                  spawned |-> is_some(handle_status(req, SignTime + d).spawn)]

HttpHeartbeat ==
    /\ http.endpoint = "none"
    /\ \E req \in MutualRequests, d \in Skews :
         http' = [endpoint |-> "/api/workers/heartbeat", req |-> req, now |-> SignTime + d,
                  code |-> handle_heartbeat(req, SignTime + d).code,
                  spawned |-> is_some(handle_heartbeat(req, SignTime + d).spawn)]

HttpBuild ==
    /\ http.endpoint = "none"
    /\ \E req \in MutualRequests, d \in Skews :
         http' = [endpoint |-> "/build", req |-> req, now |-> SignTime + d,
                  code |-> handle_build(req, SignTime + d).code,
                  spawned |-> is_some(handle_build(req, SignTime + d).spawn)]

HttpCleanup ==
    /\ http.endpoint = "none"
    /\ \E req \in MutualRequests, d \in Skews :
         http' = [endpoint |-> "/cleanup", req |-> req, now |-> SignTime + d,
                  code |-> handle_cleanup(req, SignTime + d).code,
                  spawned |-> is_some(handle_cleanup(req, SignTime + d).spawn)]

AuthIdle == [phase |-> "idle"]
GateIdle == [op |-> "idle"]
HttpIdle == [endpoint |-> "idle"]

(***************************************************************************)
(* Central and one Worker.  Every accepted webhook delivery spawns a task  *)
(* that runs process_webhook_event; a task takes one step per .await and   *)
(* is kept, with how it ended, after its last step.                        *)
(***************************************************************************)
MaxEvents == 2
MaxPr == 1
MaxJobs == 1

OrgLogin == <<"A", "c">>
RepoName == <<"W", "e", "b">>
AdminOrgName == <<"a", "c">>
AdminZones == <<<<"N", "X">>>>
AdminDomainPatterns == <<<<"*", ".", "n">>>>
WorkerEndpoint == "https://worker-nx"
InstallationId == 7

\* the head commit of the n-th delivery
CommitSha(n) == <<"c", "0", "f", "f", "e", "e">> \o to_string(n) \o <<"b", "e", "e", "f">>

OrgConfigFiles ==
    {None,
     Some([DefaultDeployConfig EXCEPT !.zone = Some(<<"n", "x">>),
                                      !.domain_pattern = Some(<<"{", "r", "e", "p", "o", "}", ".", "n">>),
                                      !.pr_pattern = Some(<<"p", "{", "p", "r", "}", "-", "{", "r", "e", "p", "o", "}", ".", "n">>)])}

RepoConfigFiles ==
    {None,
     Some([DefaultDeployConfig EXCEPT !.enabled = FALSE]),
     Some([DefaultDeployConfig EXCEPT !.zone = Some(<<"z", "z">>)]),
     Some([DefaultDeployConfig EXCEPT !.domain = Some(<<"x", ".", "i", "o">>), !.subdomain = Some(<<"w">>)]),
     Some([DefaultDeployConfig EXCEPT !.pr_pattern = Some(<<"x", ".", "i", "o">>)])}

\* pull_request.merged is Some(true) only on a closed event; the owner login of a
\* closed event is also taken in the other spelling GitHub accepts for the same
\* organization
PullRequestPayloads(n) ==
    {[shape |-> "PullRequestEvent", action |-> a, number |-> p, head_sha |-> CommitSha(n),
      merged |-> Some(FALSE), org |-> OrgLogin, repo |-> RepoName, installation |-> i]
     : a \in {"opened", "synchronize", "reopened", "closed", "labeled"},
       p \in 1..MaxPr, i \in {Some(InstallationId)}}
    \cup {[shape |-> "PullRequestEvent", action |-> "closed", number |-> p,
           head_sha |-> CommitSha(n), merged |-> Some(TRUE), org |-> o, repo |-> RepoName,
           installation |-> Some(InstallationId)]
          : p \in 1..MaxPr, o \in {OrgLogin, AdminOrgName}}
    \cup {[shape |-> "PullRequestEvent", action |-> "opened", number |-> 1,
           head_sha |-> CommitSha(n), merged |-> None, org |-> OrgLogin, repo |-> RepoName,
           installation |-> None]}

PushPayloads(n) ==
    {[shape |-> "PushEvent", git_ref |-> r, after |-> CommitSha(n),
      org |-> OrgLogin, repo |-> RepoName, installation |-> i]
     : r \in {"refs/heads/main", "refs/heads/master", "refs/heads/dev"},
       i \in {Some(InstallationId)}}
    \cup {[shape |-> "PushEvent", git_ref |-> "refs/heads/main", after |-> CommitSha(n),
           org |-> OrgLogin, repo |-> RepoName, installation |-> None]}

\* a delivery signed by GitHub with the webhook secret
Delivery(event_type, payload) ==
    [signature |-> Some([scheme |-> "sha256=", key |-> github_webhook_secret,
                         msg |-> <<payload>>]),
     timestamp |-> None, event |-> Some(event_type), body |-> payload]

WebhookDeliveries(n) ==
    {Delivery("pull_request", p) : p \in PullRequestPayloads(n)}
    \cup {Delivery("push", p) : p \in PushPayloads(n)}
    \cup {Delivery(e, [shape |-> "garbage"]) : e \in {"ping", "issues", "push"}}
    \cup {[Delivery("push", [shape |-> "garbage"]) EXCEPT !.signature = g]
          : g \in {None, Some(BogusSignature)}}
    \cup {[Delivery("push", [shape |-> "garbage"]) EXCEPT !.event = None]}

\* a check of the ref that lets every branch through
is_main_branch_any(push_event) == TRUE

\* PushEvent::is_main_branch
is_main_branch(push_event) ==
    push_event.git_ref = "refs/heads/main" \/ push_event.git_ref = "refs/heads/master"

NoEvent == [kind |-> "Done", payload |-> [shape |-> "ignored"]]

\* the locals of process_webhook_event.  enabled_rows, worker_exists and posts are
\* not locals: they record what the two tables held when the task queried them, and
\* how many requests the task has sent to a Worker.  warned: the task has logged
\* the warning of a failed delete_pr_comment.
NewTask(id, event) ==
    [id |-> id, pc |-> "start", event |-> event, deploy_config |-> None, auth |-> None,
     enabled_rows |-> {}, worker |-> None, worker_exists |-> FALSE, domain |-> None,
     job |-> None, comment_id |-> None, outcome |-> "running", closed |-> FALSE,
     posts |-> 0, warned |-> FALSE]

\* repository.org_name(), repository.name, number, head.sha / after, installation.id
org_name(t) == t.event.payload.org
repo_name(t) == t.event.payload.repo
pr_number(t) == t.event.payload.number
commit_sha(t) ==
    IF t.event.kind = "PullRequest" THEN t.event.payload.head_sha ELSE t.event.payload.after
zone_of(t) == unwrap(unwrap(t.deploy_config).zone)

\* process_webhook_event has returned: what is kept of the task.  The outcome is
\* "ignored" for an Ok(()) that came before any request to the Worker, "nothing" for
\* an Err that came before any write, comment or request.
Done(t, outcome) ==
    [NewTask(t.id, NoEvent) EXCEPT
        !.pc = "done", !.outcome = outcome, !.comment_id = t.comment_id, !.posts = t.posts,
        !.warned = t.warned,
        !.closed = (t.event.kind = "PullRequest" /\ t.event.payload.action = "closed")]

Step(t, t2) == tasks' = (tasks \ {t}) \cup {t2}

MainInit ==
    /\ authorized_orgs = {}
    /\ workers \in {{}, {[environment |-> <<"n", "x">>, endpoint |-> WorkerEndpoint, enabled |-> TRUE,
                         last_seen |-> 0]}}
    /\ pr_comments = {}
    /\ job_context = {}
    /\ deployment_status = {}
    /\ gh_comments = <<>>
    /\ tasks = {}
    /\ worker_jobs = {}
    /\ status_tasks = {}

\* central/handlers/admin.rs upsert_org, for a request that passes its checks
AdminUpsertOrg ==
    /\ authorized_orgs' = upsert_authorized_org(authorized_orgs, AdminOrgName,
                                                AdminZones, AdminDomainPatterns)
    /\ UNCHANGED <<workers, pr_comments, job_context, deployment_status, gh_comments,
                   tasks, worker_jobs, status_tasks>>

\* central/handlers/admin.rs delete_org, for a request that passes its checks
AdminDeleteOrg ==
    /\ authorized_orgs' = delete_authorized_org(authorized_orgs, AdminOrgName)
    /\ UNCHANGED <<workers, pr_comments, job_context, deployment_status, gh_comments,
                   tasks, worker_jobs, status_tasks>>

\* POST /webhook/github: handle_webhook answers, and spawns process_webhook_event
\* for what it accepted
HandleWebhook ==
    /\ Cardinality(tasks) < MaxEvents
    /\ \E req \in WebhookDeliveries(Cardinality(tasks) + 1) :
         LET answer == handle_webhook(req)
         IN  tasks' = IF is_some(answer.spawn)
                      THEN tasks \cup {NewTask(Cardinality(tasks) + 1, unwrap(answer.spawn))}
                      ELSE tasks
    /\ UNCHANGED <<authorized_orgs, workers, pr_comments, job_context, deployment_status,
                   gh_comments, worker_jobs, status_tasks>>

\* process_webhook_event up to fetch_deploy_config: installation id,
\* get_installation_token, the two .deploy.json fetches, is_deployable
TaskStart(t) ==
    /\ t.pc = "start"
    /\ IF t.event.kind \notin {"PullRequest", "Push"} THEN Step(t, Done(t, "ignored"))
       ELSE IF t.event.kind = "Push" /\ ~is_main_branch(t.event.payload)
       THEN Step(t, Done(t, "ignored"))
       ELSE IF is_none(t.event.payload.installation) THEN Step(t, Done(t, "nothing"))
       ELSE \/ Step(t, Done(t, "nothing"))     \* GitHub: token or file request failed
            \/ \E org_config \in OrgConfigFiles, repo_config \in RepoConfigFiles :
                 LET deploy_config == fetch_deploy_config(org_config, repo_config)
                 IN  IF is_some(deploy_config) /\ is_deployable(unwrap(deploy_config))
                     THEN Step(t, [t EXCEPT !.pc = "get_authorized_org",
                                            !.deploy_config = deploy_config])
                     ELSE Step(t, Done(t, "ignored"))
    /\ UNCHANGED <<authorized_orgs, workers, pr_comments, job_context, deployment_status,
                   gh_comments, worker_jobs, status_tasks>>

\* the BuildJob both paths construct; repo_url, git_token, branch and callback_url
\* are carried unchanged and not modelled
BuildJob(t, pr, domain, subdomain) ==
    [shape |-> "BuildJob", job_id |-> t.id, commit_sha |-> commit_sha(t), pr_number |-> pr,
     domain |-> domain,
     site_type |-> IF is_some(unwrap(t.deploy_config).build_type)
                   THEN unwrap(unwrap(t.deploy_config).build_type) ELSE "auto",
     repo_name |-> repo_name(t), org_name |-> org_name(t), subdomain |-> subdomain]

CleanupJob(t, domain) ==
    [shape |-> "CleanupJob", job_id |-> t.id,
     site_id |-> generate_site_id(org_name(t), repo_name(t), Some(pr_number(t))),
     domain |-> domain]

\* db::get_authorized_org(..).await, then can_use_zone; on the push path also
\* resolve_domain and can_use_domain, which come before the next .await
TaskGetAuthorizedOrg(t) ==
    /\ t.pc = "get_authorized_org"
    /\ \/ Step(t, Done(t, "nothing"))          \* database error
       \/ \E found \in get_authorized_org(authorized_orgs, org_name(t)) :
            LET seen == {r \in authorized_orgs :
                            /\ to_lowercase(r.github_org) = to_lowercase(org_name(t))
                            /\ r.enabled}
                main_domain == resolve_domain(unwrap(t.deploy_config), repo_name(t))
            IN  IF is_none(found) THEN Step(t, Done(t, "nothing"))
                ELSE IF ~can_use_zone(unwrap(found).zones, zone_of(t))
                THEN Step(t, Done(t, "nothing"))
                ELSE IF t.event.kind = "PullRequest"
                THEN Step(t, [t EXCEPT !.pc = "get_worker", !.auth = found,
                                       !.enabled_rows = seen])
                ELSE IF is_none(main_domain) THEN Step(t, Done(t, "nothing"))
                ELSE IF ~can_use_domain(unwrap(found).domain_patterns, unwrap(main_domain))
                THEN Step(t, Done(t, "nothing"))
                ELSE Step(t, [t EXCEPT !.pc = "get_worker", !.auth = found,
                                       !.enabled_rows = seen, !.domain = main_domain])
    /\ UNCHANGED <<authorized_orgs, workers, pr_comments, job_context, deployment_status,
                   gh_comments, worker_jobs, status_tasks>>

\* db::get_worker(..).await and what follows up to the next .await: on the PR path
\* the match on the action, resolve_pr_domain, can_use_domain and the job id.  The
\* three build actions share one arm and the action is not read again, so the task
\* keeps it as "opened" from there on.
TaskGetWorker(t) ==
    /\ t.pc = "get_worker"
    /\ \/ Step(t, Done(t, "nothing"))          \* database error
       \/ \E found \in get_worker(workers, zone_of(t)) :
            LET exists == \E w \in workers : w.environment = zone_of(t) /\ w.enabled
                t1 == [t EXCEPT !.worker = found, !.worker_exists = exists]
                pr_domain == resolve_pr_domain(unwrap(t.deploy_config), repo_name(t),
                                               pr_number(t))
            IN  IF is_none(found) THEN Step(t, Done(t, "nothing"))
                ELSE IF t.event.kind = "Push"
                THEN Step(t, [t1 EXCEPT !.pc = "dispatch_build_job",
                                 !.job = Some(BuildJob(t, None, unwrap(t.domain),
                                                       unwrap(t.deploy_config).subdomain))])
                ELSE IF t.event.payload.action \in {"opened", "synchronize", "reopened"}
                THEN IF is_none(pr_domain) THEN Step(t, Done(t, "nothing"))
                     ELSE IF ~can_use_domain(unwrap(t.auth).domain_patterns, unwrap(pr_domain))
                     THEN Step(t, Done(t, "nothing"))
                     ELSE Step(t, [t1 EXCEPT !.pc = "get_pr_comment", !.domain = pr_domain,
                                      !.event.payload.action = "opened"])
                ELSE IF t.event.payload.action = "closed"
                THEN Step(t, [t1 EXCEPT !.pc = "dispatch_cleanup_job", !.domain = pr_domain,
                                 !.job = Some(CleanupJob(t, pr_domain))])
                ELSE Step(t, Done(t, "ignored"))
    /\ UNCHANGED <<authorized_orgs, workers, pr_comments, job_context, deployment_status,
                   gh_comments, worker_jobs, status_tasks>>

\* db::get_pr_comment(..).await
TaskGetPrComment(t) ==
    /\ t.pc = "get_pr_comment"
    /\ \/ Step(t, Done(t, "nothing"))          \* database error
       \/ \E found \in get_pr_comment(pr_comments, org_name(t), repo_name(t), pr_number(t)) :
            IF is_some(found)
            THEN Step(t, [t EXCEPT !.pc = "update_comment", !.comment_id = found])
            ELSE Step(t, [t EXCEPT !.pc = "create_pr_comment"])
    /\ UNCHANGED <<authorized_orgs, workers, pr_comments, job_context, deployment_status,
                   gh_comments, worker_jobs, status_tasks>>

\* github_client.update_comment(existing_comment_id, building_comment(sha)).await
TaskUpdateComment(t) ==
    /\ t.pc = "update_comment"
    /\ \/ /\ Step(t, Done(t, "comment error"))  \* GitHub answered an error
          /\ UNCHANGED gh_comments
       \/ /\ gh_comments' = [gh_comments EXCEPT ![unwrap(t.comment_id)].body =
                                                   building_comment(commit_sha(t))]
          /\ Step(t, [t EXCEPT !.pc = "dispatch_build_job",
                         !.job = Some(BuildJob(t, Some(pr_number(t)), unwrap(t.domain), None))])
    /\ UNCHANGED <<authorized_orgs, workers, pr_comments, job_context, deployment_status,
                   worker_jobs, status_tasks>>

\* github_client.create_pr_comment(org, repo, number, building_comment(sha)).await
TaskCreatePrComment(t) ==
    /\ t.pc = "create_pr_comment"
    /\ \/ /\ Step(t, Done(t, "comment error"))  \* GitHub answered an error
          /\ UNCHANGED gh_comments
       \/ /\ gh_comments' = Append(gh_comments,
                                   [org |-> org_name(t), repo |-> repo_name(t),
                                    issue |-> pr_number(t),
                                    body |-> building_comment(commit_sha(t))])
          /\ Step(t, [t EXCEPT !.pc = "upsert_pr_comment",
                               !.comment_id = Some(Len(gh_comments) + 1)])
    /\ UNCHANGED <<authorized_orgs, workers, pr_comments, job_context, deployment_status,
                   worker_jobs, status_tasks>>

\* db::upsert_pr_comment(org, repo, number, comment.id).await
TaskUpsertPrComment(t) ==
    /\ t.pc = "upsert_pr_comment"
    /\ \/ /\ Step(t, Done(t, "comment error"))  \* database error
          /\ UNCHANGED pr_comments
       \/ /\ pr_comments' = upsert_pr_comment(pr_comments, org_name(t), repo_name(t),
                                              pr_number(t), unwrap(t.comment_id))
          /\ Step(t, [t EXCEPT !.pc = "dispatch_build_job",
                         !.job = Some(BuildJob(t, Some(pr_number(t)), unwrap(t.domain), None))])
    /\ UNCHANGED <<authorized_orgs, workers, job_context, deployment_status, gh_comments,
                   worker_jobs, status_tasks>>

\* what dispatch.rs and worker/callback.rs put on the wire: the body, X-*-Signature
\* and X-Request-Timestamp (timestamp.to_string())
SignedRequest(body, now) ==
    LET signed == sign_request(worker_shared_secret, body, now)
    IN  [signature |-> Some(signed.signature), timestamp |-> Some(to_string(signed.timestamp)),
         event |-> None, body |-> body]

\* how far the receiver's clock may be from the sender's
ClockSkews == {0, MAX_SIGNATURE_AGE_SECS + 1}

is_success(code) == code >= 200 /\ code <= 299

\* the locals of execute_build / execute_cleanup
NewWorkerJob(job) ==
    [job |-> job, pc |-> IF job.shape = "BuildJob" THEN "send_building" ELSE "run_cleanup",
     result |-> None]

\* one more http_client.post(..).send() by the task
Posted(t) == [t EXCEPT !.posts = @ + 1]

TaskDispatchBuildJob_unchecked(t) ==
    /\ t.pc = "dispatch_build_job"
    /\ \/ /\ Step(t, Done(Posted(t), "dispatch error"))
          /\ UNCHANGED worker_jobs
       \/ \E skew \in ClockSkews :
            /\ Cardinality(worker_jobs) < MaxJobs
            /\ LET answer == handle_build(SignedRequest(unwrap(t.job), SignTime), SignTime + skew)
               IN  /\ worker_jobs' = IF is_some(answer.spawn)
                                     THEN worker_jobs \cup {NewWorkerJob(unwrap(answer.spawn))}
                                     ELSE worker_jobs
                   /\ Step(t, [Posted(t) EXCEPT !.pc = "store_job_context"])
    /\ UNCHANGED <<authorized_orgs, workers, pr_comments, job_context, deployment_status,
                   gh_comments, status_tasks>>

\* dispatch_build_job(..).await: the Worker cannot be reached, or handle_build answers
TaskDispatchBuildJob(t) ==
    /\ t.pc = "dispatch_build_job"
    /\ \/ /\ Step(t, Done(Posted(t), "dispatch error"))
          /\ UNCHANGED worker_jobs
       \/ \E skew \in ClockSkews :
            /\ Cardinality(worker_jobs) < MaxJobs
            /\ LET answer == handle_build(SignedRequest(unwrap(t.job), SignTime), SignTime + skew)
               IN  /\ worker_jobs' = IF is_some(answer.spawn)
                                     THEN worker_jobs \cup {NewWorkerJob(unwrap(answer.spawn))}
                                     ELSE worker_jobs
                   /\ IF is_success(answer.code)
                      THEN Step(t, [Posted(t) EXCEPT !.pc = "store_job_context"])
                      ELSE Step(t, Done(Posted(t), "dispatch error"))
    /\ UNCHANGED <<authorized_orgs, workers, pr_comments, job_context, deployment_status,
                   gh_comments, status_tasks>>

\* store_deployment_context(..).await, the last statement of both build paths
TaskStoreJobContext(t) ==
    /\ t.pc = "store_job_context"
    /\ \/ /\ Step(t, Done(t, "store error"))   \* database error
          /\ UNCHANGED job_context
       \/ /\ job_context' = store_job_context(job_context, t.id,
                                unwrap(t.event.payload.installation), org_name(t),
                                repo_name(t), t.comment_id, commit_sha(t))
          /\ Step(t, Done(t, "completed"))
    /\ UNCHANGED <<authorized_orgs, workers, pr_comments, deployment_status, gh_comments,
                   worker_jobs, status_tasks>>

\* dispatch_cleanup_job(..).await
TaskDispatchCleanupJob(t) ==
    /\ t.pc = "dispatch_cleanup_job"
    /\ \/ /\ Step(t, Done(Posted(t), "dispatch error"))
          /\ UNCHANGED worker_jobs
       \/ \E skew \in ClockSkews :
            /\ Cardinality(worker_jobs) < MaxJobs
            /\ LET answer == handle_cleanup(SignedRequest(unwrap(t.job), SignTime), SignTime + skew)
               IN  /\ worker_jobs' = IF is_some(answer.spawn)
                                     THEN worker_jobs \cup {NewWorkerJob(unwrap(answer.spawn))}
                                     ELSE worker_jobs
                   /\ IF is_success(answer.code)
                      THEN Step(t, [Posted(t) EXCEPT !.pc = "delete_pr_comment"])
                      ELSE Step(t, Done(Posted(t), "dispatch error"))
    /\ UNCHANGED <<authorized_orgs, workers, pr_comments, job_context, deployment_status,
                   gh_comments, status_tasks>>

\* db::delete_pr_comment(..).await, whose error is only logged
TaskDeletePrComment(t) ==
    /\ t.pc = "delete_pr_comment"
    /\ \/ /\ UNCHANGED pr_comments             \* database error
          /\ Step(t, Done([t EXCEPT !.warned = TRUE], "completed"))
       \/ /\ pr_comments' = delete_pr_comment(pr_comments, org_name(t), repo_name(t),
                                               pr_number(t))
          /\ Step(t, Done(t, "completed"))
    /\ UNCHANGED <<authorized_orgs, workers, job_context, deployment_status, gh_comments,
                   worker_jobs, status_tasks>>

(***************************************************************************)
(* Worker: execute_build and execute_cleanup, one step per .await that     *)
(* Central can observe.  run_build_pipeline and run_cleanup are taken as   *)
(* one step each that ends in Ok or Err.                                   *)
(***************************************************************************)
BuildErrors == {<<"b", "u", "i", "l", "d", " ", "f", "a", "i", "l", "e", "d">>}

StatusUpdate(job_id, status, deployed_url, error_message) ==
    [shape |-> "StatusUpdate", job_id |-> job_id, status |-> status,
     deployed_url |-> deployed_url, error_message |-> error_message]

\* the locals of process_status_update
NewStatusTask(id, update) ==
    [id |-> id, pc |-> "get_deployment_by_job_id", update |-> update, deployment |-> None,
     outcome |-> "running"]

StatusDone(s, outcome) ==
    [s EXCEPT !.pc = "done", !.deployment = None, !.outcome = outcome]

StatusStep(s, s2) == status_tasks' = (status_tasks \ {s}) \cup {s2}

\* POST /api/status: handle_status answers, and spawns process_status_update for
\* what it accepted
ReceiveStatus(req, now) ==
    LET answer == handle_status(req, now)
    IN  status_tasks' =
            IF is_some(answer.spawn)
            THEN status_tasks \cup {NewStatusTask(Cardinality(status_tasks) + 1,
                                                  unwrap(answer.spawn))}
            ELSE status_tasks

\* worker/callback.rs send_status_update: Central cannot be reached, or handle_status
\* answers; the caller only logs an error
send_status_update(update) ==
    \/ UNCHANGED status_tasks
    \/ \E skew \in ClockSkews :
         ReceiveStatus(SignedRequest(update, SignTime), SignTime + skew)

JobStep(j, j2) == worker_jobs' = (worker_jobs \ {j}) \cup {j2}

\* execute_build: send_status_update(Building).await
WorkerSendBuilding(j) ==
    /\ j.pc = "send_building"
    /\ send_status_update(StatusUpdate(j.job.job_id, "building", None, None))
    /\ JobStep(j, [j EXCEPT !.pc = "run_build_pipeline"])
    /\ UNCHANGED <<authorized_orgs, workers, pr_comments, job_context, deployment_status,
                   gh_comments, tasks>>

\* execute_build: run_build_pipeline(&state, &job).await
WorkerRunBuildPipeline(j) ==
    /\ j.pc = "run_build_pipeline"
    /\ \/ JobStep(j, [j EXCEPT !.pc = "send_result",
                         !.result = Some([ok |-> TRUE,
                                          value |-> generate_preview_url(j.job.domain,
                                                        j.job.repo_name, j.job.pr_number)])])
       \/ \E e \in BuildErrors :
            JobStep(j, [j EXCEPT !.pc = "send_result",
                           !.result = Some([ok |-> FALSE, value |-> e])])
    /\ UNCHANGED <<authorized_orgs, workers, pr_comments, job_context, deployment_status,
                   gh_comments, tasks, status_tasks>>

\* execute_cleanup: run_cleanup(&state, &job).await
WorkerRunCleanup(j) ==
    /\ j.pc = "run_cleanup"
    /\ \/ JobStep(j, [j EXCEPT !.pc = "send_result",
                         !.result = Some([ok |-> TRUE, value |-> <<>>])])
       \/ \E e \in BuildErrors :
            JobStep(j, [j EXCEPT !.pc = "send_result",
                           !.result = Some([ok |-> FALSE, value |-> e])])
    /\ UNCHANGED <<authorized_orgs, workers, pr_comments, job_context, deployment_status,
                   gh_comments, tasks, status_tasks>>

\* execute_build / execute_cleanup: the send_status_update of the match arm taken
WorkerSendResult(j) ==
    /\ j.pc = "send_result"
    /\ LET result == unwrap(j.result)
       IN  send_status_update(
               IF ~result.ok
               THEN StatusUpdate(j.job.job_id, "failed", None, Some(result.value))
               ELSE IF j.job.shape = "BuildJob"
               THEN StatusUpdate(j.job.job_id, "success", Some(result.value), None)
               ELSE StatusUpdate(j.job.job_id, "cleaned", None, None))
    /\ JobStep(j, [j EXCEPT !.pc = "done"])
    /\ UNCHANGED <<authorized_orgs, workers, pr_comments, job_context, deployment_status,
                   gh_comments, tasks>>

(***************************************************************************)
(* Central: process_status_update.                                         *)
(***************************************************************************)
\* db::get_deployment_by_job_id: the job's context row, read as a deployment; a
\* deployment is of type "pr" when it tracks a PR comment
get_deployment_by_job_id(table, job_id) ==
    fetch_optional({[id |-> r.job_id,
                     config_id |-> [github_org |-> r.github_org,
                                    github_repo |-> r.github_repo,
                                    installation_id |-> Some(r.installation_id)],
                     deployment_type |-> IF is_some(r.github_comment_id) THEN "pr" ELSE "push",
                     github_comment_id |-> r.github_comment_id,
                     commit_sha |-> r.commit_sha]
                    : r \in {r \in table : r.job_id = job_id}})

\* db::update_deployment_status(id, status, deployed_url, error_message)
update_deployment_status(table, id, status, deployed_url, error_message) ==
    {r \in table : r.id # id}
    \cup {[id |-> id, status |-> status, deployed_url |-> deployed_url,
           error_message |-> error_message]}

\* db::get_deployment_config_by_id
get_deployment_config_by_id(config_id) == Some(config_id)

comment_body_without_placeholder(update, deployment) ==
    CASE update.status = "success" /\ is_some(update.deployed_url) ->
            Some(success_comment(deployment.commit_sha, unwrap(update.deployed_url)))
      [] update.status = "failed" ->
            Some(failure_comment(deployment.commit_sha,
                                 IF is_some(update.error_message)
                                 THEN unwrap(update.error_message) ELSE <<"U", "n", "k", "n", "o", "w", "n", " ", "e", "r", "r", "o", "r">>))
      [] OTHER -> None

\* the comment body process_status_update chooses: None where it returns without
\* an update
comment_body(update, deployment) ==
    CASE update.status = "success" ->
            Some(success_comment(deployment.commit_sha,
                                 IF is_some(update.deployed_url) THEN unwrap(update.deployed_url)
                                 ELSE <<"(", "U", "R", "L", " ", "n", "o", "t", " ", "a", "v", "a", "i", "l", "a", "b", "l", "e", ")">>))
      [] update.status = "failed" ->
            Some(failure_comment(deployment.commit_sha,
                                 IF is_some(update.error_message)
                                 THEN unwrap(update.error_message) ELSE <<"U", "n", "k", "n", "o", "w", "n", " ", "e", "r", "r", "o", "r">>))
      [] OTHER -> None

\* db::get_deployment_by_job_id(..).await
StatusGetDeployment(s) ==
    /\ s.pc = "get_deployment_by_job_id"
    /\ \/ StatusStep(s, StatusDone(s, "error"))          \* database error
       \/ \E found \in get_deployment_by_job_id(job_context, s.update.job_id) :
            IF is_none(found) THEN StatusStep(s, StatusDone(s, "unknown job"))
            ELSE StatusStep(s, [s EXCEPT !.pc = "update_deployment_status",
                                         !.deployment = found])
    /\ UNCHANGED <<authorized_orgs, workers, pr_comments, job_context, deployment_status,
                   gh_comments, tasks, worker_jobs>>

\* db::update_deployment_status(..).await, then the test for a PR deployment
StatusUpdateDeployment(s) ==
    /\ s.pc = "update_deployment_status"
    /\ \/ /\ StatusStep(s, StatusDone(s, "error"))       \* database error
          /\ UNCHANGED deployment_status
       \/ /\ deployment_status' =
                update_deployment_status(deployment_status, unwrap(s.deployment).id,
                    s.update.status, s.update.deployed_url, s.update.error_message)
          /\ IF /\ unwrap(s.deployment).deployment_type = "pr"
                /\ is_some(unwrap(s.deployment).github_comment_id)
             THEN StatusStep(s, [s EXCEPT !.pc = "update_comment"])
             ELSE StatusStep(s, StatusDone(s, "no comment"))
    /\ UNCHANGED <<authorized_orgs, workers, pr_comments, job_context, gh_comments,
                   tasks, worker_jobs>>

StatusUpdateComment_posting(s) ==
    /\ s.pc = "update_comment"
    /\ LET deployment == unwrap(s.deployment)
           body == comment_body(s.update, deployment)
       IN  IF is_some(body)
           THEN /\ gh_comments' = Append(gh_comments,
                                         [gh_comments[unwrap(deployment.github_comment_id)]
                                              EXCEPT !.body = unwrap(body)])
                /\ StatusStep(s, StatusDone(s, "comment updated"))
           ELSE /\ UNCHANGED gh_comments
                /\ StatusStep(s, StatusDone(s, "not updated"))
    /\ UNCHANGED <<authorized_orgs, workers, pr_comments, job_context, deployment_status,
                   tasks, worker_jobs>>

\* get_deployment_config_by_id, get_installation_token, the match on the status,
\* github_client.update_comment(..).await
StatusUpdateComment(s) ==
    /\ s.pc = "update_comment"
    /\ LET deployment == unwrap(s.deployment)
           config == get_deployment_config_by_id(deployment.config_id)
           body == comment_body(s.update, deployment)
       IN  \/ /\ StatusStep(s, StatusDone(s, "error"))   \* database or GitHub error
              /\ UNCHANGED gh_comments
           \/ /\ is_some(config)
              /\ is_some(unwrap(config).installation_id)
              /\ IF is_some(body)
                 THEN /\ gh_comments' =
                            [gh_comments EXCEPT ![unwrap(deployment.github_comment_id)].body =
                                                    unwrap(body)]
                      /\ StatusStep(s, StatusDone(s, "comment updated"))
                 ELSE /\ UNCHANGED gh_comments
                      /\ StatusStep(s, StatusDone(s, "not updated"))
    /\ UNCHANGED <<authorized_orgs, workers, pr_comments, job_context, deployment_status,
                   tasks, worker_jobs>>

(***************************************************************************)
(* process_status_update on its own: Central holds the context of a PR job *)
(* (job 1, comment 1) and of a push job (job 2); any StatusUpdate a holder *)
(* of the shared secret can sign arrives at POST /api/status.              *)
(***************************************************************************)
MaxUpdates == 2

StatusInit ==
    /\ authorized_orgs = {}
    /\ workers = {}
    /\ pr_comments = {[github_org |-> OrgLogin, github_repo |-> RepoName, pr_number |-> 1,
                       comment_id |-> 1]}
    /\ job_context =
          store_job_context(
              store_job_context({}, 1, InstallationId, OrgLogin, RepoName, Some(1),
                                CommitSha(1)),
              2, InstallationId, OrgLogin, RepoName, None, CommitSha(2))
    /\ deployment_status = {}
    /\ gh_comments = <<[org |-> OrgLogin, repo |-> RepoName, issue |-> 1,
                        body |-> building_comment(CommitSha(1))]>>
    /\ tasks = {}
    /\ worker_jobs = {}
    /\ status_tasks = {}

StatusUpdates ==
    {StatusUpdate(j, s, None, None) : j \in 1..3,
                                      s \in {"pending", "building", "success", "failed", "cleaned"}}
    \cup {StatusUpdate(j, "success", Some(<<"h", "t", "t", "p", "s", ":", "/", "/", "p", "1", "-", "w", "e", "b", ".", "n">>), None) : j \in 1..3}
    \cup {StatusUpdate(j, "failed", None, Some(e)) : j \in 1..3, e \in BuildErrors}

\* POST /api/status with a signed StatusUpdate
HandleStatus ==
    /\ Cardinality(status_tasks) < MaxUpdates
    /\ \E update \in StatusUpdates : ReceiveStatus(SignedRequest(update, SignTime), SignTime)
    /\ UNCHANGED <<authorized_orgs, workers, pr_comments, job_context, deployment_status,
                   gh_comments, tasks, worker_jobs>>


(***************************************************************************)
(* Two jobs of one pull request.  Central has processed `opened` and then  *)
(* `synchronize` for PR 1 to their end: job 1 and then job 2 were          *)
(* dispatched, both contexts are stored with the tracked comment 1, and    *)
(* the comment carries the Building text of job 2.  The status updates of  *)
(* both jobs are still to come.                                            *)
(***************************************************************************)
SharedCommentInit ==
    /\ authorized_orgs = {}
    /\ workers = {}
    /\ pr_comments = upsert_pr_comment({}, OrgLogin, RepoName, 1, 1)
    /\ job_context =
          store_job_context(
              store_job_context({}, 1, InstallationId, OrgLogin, RepoName, Some(1),
                                CommitSha(1)),
              2, InstallationId, OrgLogin, RepoName, Some(1), CommitSha(2))
    /\ deployment_status = {}
    /\ gh_comments = <<[org |-> OrgLogin, repo |-> RepoName, issue |-> 1,
                        body |-> building_comment(CommitSha(2))]>>
    /\ tasks = {}
    /\ worker_jobs = {}
    /\ status_tasks = {}

(***************************************************************************)
(* Worker host.  An entry of sites_dir is None (no such name) or Some of   *)
(* [is_dir, files, metadata]: files is the set of <<job id, "some">> or    *)
(* <<job id, "all">> telling whose build output the directory holds and    *)
(* whether the copy of it completed; metadata is the content of            *)
(* .catapult.json, None when the file does not exist.  A route is          *)
(* [id, match, root]: id is the "@id" field, match the host of the match   *)
(* clause, both None for a route that has none; root is the directory a    *)
(* file_server handler serves.                                             *)
(***************************************************************************)
MaxWorkerJobs == 2

\* worker/deploy/caddy.rs: the constants of wait_for_caddy_ready, in milliseconds
CADDY_READY_TIMEOUT == 60000
CADDY_READY_INTERVAL == 500

\* worker/deploy/sites.rs SiteMetadata
SiteMetadata(site_id, domain) == [site_id |-> site_id, domain |-> domain]

Dir(files, metadata) == Some([is_dir |-> TRUE, files |-> files, metadata |-> metadata])

\* a plain file in sites_dir
PlainFile == Some([is_dir |-> FALSE, files |-> {}, metadata |-> None])

\* state.config.sites_dir.join(&site_id): a directory is named by its site id
site_dir_of(site_id) == site_id

\* site_dir.exists()
exists(entries, name) == is_some(entries[name])

\* tokio::fs::remove_dir_all(&site_dir)
remove_dir_all(entries, name) == [entries EXCEPT ![name] = None]

\* copy_dir_recursive, its first await: create_dir_all(dst), the directory then
\* holding some of the build's files until the loop over the entries has ended
copy_started(entries, name, job_id) ==
    [entries EXCEPT ![name] =
        IF is_some(@) THEN Some([unwrap(@) EXCEPT !.files = @ \cup {<<job_id, "some">>}])
        ELSE Dir({<<job_id, "some">>}, None)]

\* copy_dir_recursive, the loop over the entries run to its end: the directory
\* holds all of the build's files, unless it was removed and made again meanwhile
copy_completed(entries, name, job_id) ==
    [entries EXCEPT ![name] =
        Some([unwrap(@) EXCEPT !.files =
                 IF <<job_id, "some">> \in @
                 THEN (@ \ {<<job_id, "some">>}) \cup {<<job_id, "all">>}
                 ELSE @ \cup {<<job_id, "some">>}])]

\* write_site_metadata(site_dir, metadata)
write_site_metadata(entries, name, metadata) ==
    [entries EXCEPT ![name] = Some([unwrap(@) EXCEPT !.metadata = Some(metadata)])]

\* read_site_metadata(site_dir)
read_site_metadata(entries, name) == unwrap(entries[name]).metadata

\* the CaddyRoute configure_caddy_route builds
CaddyRoute(site_id, site_dir, domain) ==
    [id |-> Some(site_id), match |-> Some(domain), root |-> Some(site_dir)]

\* a route without a match clause
CatchAllRoute == [id |-> None, match |-> None, root |-> None]

\* Caddy: DELETE /id/{id} removes the object with that @id
delete_by_id(routes, id) == SelectSeq(routes, LAMBDA r : r.id # Some(id))

\* find_catch_all_index, on the routes a successful GET returned: the index, counted
\* from 0, of the first route without a "match" field
find_catch_all_index(routes) ==
    IF \E i \in 1..Len(routes) : is_none(routes[i].match)
    THEN Some((CHOOSE i \in 1..Len(routes) :
                  /\ is_none(routes[i].match)
                  /\ \A k \in 1..(i - 1) : is_some(routes[k].match)) - 1)
    ELSE None

\* Caddy: PUT .../routes/{idx} inserts at idx (counted from 0); an index beyond the
\* end of the array is an error (None)
put_at_index(routes, idx, route) ==
    IF idx > Len(routes) THEN None
    ELSE Some(SubSeq(routes, 1, idx) \o <<route>> \o SubSeq(routes, idx + 1, Len(routes)))

\* Caddy: POST .../routes appends
post_append(routes, route) == Append(routes, route)

(***************************************************************************)
(* Worker: handle_build / handle_cleanup and the tasks they spawn.  A task *)
(* is the locals of execute_build or execute_cleanup; steps is not a       *)
(* local: it records the fallible calls the task has made, in order, and   *)
(* whether each returned Ok.                                               *)
(***************************************************************************)
PrDomain == <<"p", "1", "-", "w", "e", "b", ".", "n">>
MainDomain == <<"w", "e", "b", ".", "n">>

WorkerBuildJobs(id) ==
    {[shape |-> "BuildJob", job_id |-> id, commit_sha |-> CommitSha(id),
      pr_number |-> target[1], domain |-> target[2], site_type |-> "auto",
      repo_name |-> RepoName, org_name |-> OrgLogin, subdomain |-> None]
     : target \in {<<Some(1), PrDomain>>, <<None, MainDomain>>}}

WorkerCleanupJobs(id) ==
    {[shape |-> "CleanupJob", job_id |-> id,
      site_id |-> generate_site_id(OrgLogin, RepoName, Some(1)), domain |-> Some(PrDomain)]}

\* the names sites_dir can hold: the two site ids, a directory deployed earlier that
\* carries metadata, and a plain file
LegacySite == <<"o", "l", "d">>
StrayFile == <<"f">>
SiteNames ==
    {generate_site_id(OrgLogin, RepoName, Some(1)), generate_site_id(OrgLogin, RepoName, None),
     LegacySite, StrayFile}

NewWorkerTask(job) ==
    [id |-> job.job_id, job |-> job,
     pc |-> IF job.shape = "BuildJob" THEN "send_building" ELSE "remove_caddy_route",
     site_id |-> IF job.shape = "BuildJob"
                 THEN generate_site_id(job.org_name, job.repo_name, job.pr_number)
                 ELSE job.site_id,
     insert_index |-> None, result |-> None, steps |-> <<>>]

WStep(t, t2) == worker_tasks' = (worker_tasks \ {t}) \cup {t2}

Ran(t, step, ok) == [t EXCEPT !.steps = Append(@, [step |-> step, ok |-> ok])]

\* a call returned Err and ? left run_build_pipeline / run_cleanup with it
Failed(t, step, error) ==
    [Ran(t, step, FALSE) EXCEPT !.pc = "send_result",
                                !.result = Some([ok |-> FALSE, value |-> error])]

\* POST /build and POST /cleanup of a request Central signed, once run() serves
AcceptJob ==
    /\ worker_run.pc = "serving"
    /\ Len(status_sent) < MaxWorkerJobs
    /\ \E job \in WorkerBuildJobs(Len(status_sent) + 1)
                  \cup WorkerCleanupJobs(Len(status_sent) + 1) :
         LET req == SignedRequest(job, SignTime)
             answer == IF job.shape = "BuildJob" THEN handle_build(req, SignTime)
                       ELSE handle_cleanup(req, SignTime)
         IN  /\ is_some(answer.spawn)
             /\ worker_tasks' = worker_tasks \cup {NewWorkerTask(unwrap(answer.spawn))}
             /\ status_sent' = Append(status_sent, <<>>)
    /\ UNCHANGED <<sites_dir, caddy_routes, worker_run>>

\* worker/callback.rs send_status_update seen from the Worker: the update goes out
\* once; Central is unreachable or handle_status answers, and the caller only logs
callback(t, update) ==
    \E delivered \in {FALSE} \cup {is_success(handle_status(SignedRequest(update, SignTime),
                                                           SignTime + skew).code)
                                   : skew \in ClockSkews} :
        status_sent' = [status_sent EXCEPT ![t.id] =
                           Append(@, [update |-> update, delivered |-> delivered])]

\* execute_build: send_status_update(Building).await
BuildSendBuilding(t) ==
    /\ t.pc = "send_building"
    /\ callback(t, StatusUpdate(t.id, "building", None, None))
    /\ WStep(t, [t EXCEPT !.pc = "create_work_dir"])
    /\ UNCHANGED <<sites_dir, caddy_routes, worker_run>>

\* run_build_pipeline: create_dir_all(&work_dir), clone_repository, run_build, each
\* ending the pipeline with its error
BuildPrepare(t) ==
    /\ t.pc \in {"create_work_dir", "clone_repository", "run_build"}
    /\ \/ WStep(t, [Ran(t, t.pc, TRUE) EXCEPT
                       !.pc = CASE t.pc = "create_work_dir" -> "clone_repository"
                                [] t.pc = "clone_repository" -> "run_build"
                                [] OTHER -> "remove_old_deployment"])
       \/ WStep(t, Failed(t, t.pc, <<"f", "a", "i", "l", "e", "d">>))
    /\ UNCHANGED <<sites_dir, caddy_routes, status_sent, worker_run>>

\* run_build_pipeline: if site_dir.exists() { remove_dir_all(&site_dir).await? }
BuildRemoveOldDeployment(t) ==
    /\ t.pc = "remove_old_deployment"
    /\ IF exists(sites_dir, site_dir_of(t.site_id))
       THEN \/ /\ sites_dir' = remove_dir_all(sites_dir, site_dir_of(t.site_id))
               /\ WStep(t, [Ran(t, "remove_dir_all", TRUE) EXCEPT !.pc = "copy_dir_recursive"])
            \/ /\ UNCHANGED sites_dir
               /\ WStep(t, Failed(t, "remove_dir_all", <<"f", "a", "i", "l", "e", "d">>))
       ELSE /\ UNCHANGED sites_dir
            /\ WStep(t, [t EXCEPT !.pc = "copy_dir_recursive"])
    /\ UNCHANGED <<caddy_routes, status_sent, worker_run>>

\* copy_dir_recursive(&output_dir, &site_dir): create_dir_all(dst), then the entries
BuildCopy(t) ==
    /\ t.pc \in {"copy_dir_recursive", "copy_entries"}
    /\ LET name == site_dir_of(t.site_id)
       IN  IF t.pc = "copy_dir_recursive"
           THEN \/ /\ sites_dir' = copy_started(sites_dir, name, t.id)
                   /\ WStep(t, [t EXCEPT !.pc = "copy_entries"])
                \/ /\ UNCHANGED sites_dir
                   /\ WStep(t, Failed(t, "copy_dir_recursive", <<"f", "a", "i", "l", "e", "d">>))
           ELSE \/ /\ exists(sites_dir, name)
                   /\ sites_dir' = copy_completed(sites_dir, name, t.id)
                   /\ WStep(t, [Ran(t, "copy_dir_recursive", TRUE) EXCEPT
                                   !.pc = "remove_caddy_route"])
                \/ /\ UNCHANGED sites_dir
                   /\ WStep(t, Failed(t, "copy_dir_recursive", <<"f", "a", "i", "l", "e", "d">>))
    /\ UNCHANGED <<caddy_routes, status_sent, worker_run>>

\* Caddy: the status DELETE /id/{id} is answered with: 200 once the object is removed,
\* 404 when no object has that @id, 500 when Caddy fails
delete_statuses(routes, id) ==
    {IF \E i \in 1..Len(routes) : routes[i].id = Some(id) THEN 200 ELSE 404, 500}

\* a remove_caddy_route for which only a 2xx answer is a success
remove_caddy_route_strict(status) ==
    IF is_success(status) THEN None
    ELSE Some(<<"C", "a", "d", "d", "y", " ", "A", "P", "I", " ", "e", "r", "r", "o", "r", " ">> \o to_string(status))

\* remove_caddy_route, on the status of the answer: Ok (None) for 2xx and for 404,
\* else the error "Caddy API error {status}"
remove_caddy_route(status) ==
    IF is_success(status) \/ status = 404 THEN None
    ELSE Some(<<"C", "a", "d", "d", "y", " ", "A", "P", "I", " ", "e", "r", "r", "o", "r", " ">> \o to_string(status))

\* remove_caddy_route(site_id): DELETE /id/{site_id}.  The request fails, or it is
\* answered and the status decides; the routes change on 200 alone.
\* configure_caddy_route drops the result (let _ =), run_cleanup returns the error.
TaskRemoveCaddyRoute(t) ==
    /\ t.pc = "remove_caddy_route"
    /\ \E error \in {Some(<<"F", "a", "i", "l", "e", "d", " ", "t", "o", " ", "r", "e", "m", "o", "v", "e", " ", "C", "a", "d", "d", "y", " ", "r", "o", "u", "t", "e">>)}
                    \cup {remove_caddy_route(s) : s \in delete_statuses(caddy_routes, t.site_id)} :
           /\ caddy_routes' = IF is_none(error) THEN delete_by_id(caddy_routes, t.site_id)
                              ELSE caddy_routes
           /\ IF is_none(error)
              THEN WStep(t, [Ran(t, "remove_caddy_route", TRUE) EXCEPT
                                !.pc = IF t.job.shape = "BuildJob" THEN "find_catch_all_index"
                                       ELSE "remove_site_dir"])
              ELSE IF t.job.shape = "BuildJob"
              THEN WStep(t, [t EXCEPT !.pc = "find_catch_all_index"])
              ELSE WStep(t, Failed(t, "remove_caddy_route", unwrap(error)))
    /\ UNCHANGED <<sites_dir, status_sent, worker_run>>

\* configure_caddy_route: find_catch_all_index(..).await?: the GET fails (Err), is
\* answered without success (Ok(None)), or returns the routes
BuildFindCatchAllIndex(t) ==
    /\ t.pc = "find_catch_all_index"
    /\ \/ WStep(t, Failed(t, "configure_caddy_route", <<"f", "a", "i", "l", "e", "d">>))
       \/ WStep(t, [t EXCEPT !.pc = "add_caddy_route", !.insert_index = None])
       \/ WStep(t, [t EXCEPT !.pc = "add_caddy_route",
                             !.insert_index = find_catch_all_index(caddy_routes)])
    /\ UNCHANGED <<sites_dir, caddy_routes, status_sent, worker_run>>

\* where run_build_pipeline goes on after configure_caddy_route returned Ok
after_configure(t) == IF worker_run.cloudflare_enabled THEN "ensure_route" ELSE "send_result"

Succeeded(t) ==
    [t EXCEPT !.result = Some([ok |-> TRUE,
                               value |-> generate_preview_url(t.job.domain, t.job.repo_name,
                                                              t.job.pr_number)])]

\* configure_caddy_route: add_caddy_route(route, insert_index).await?: PUT at the
\* index or POST; a request that fails or is answered without success is the error
BuildAddCaddyRoute(t) ==
    /\ t.pc = "add_caddy_route"
    /\ LET route == CaddyRoute(t.site_id, site_dir_of(t.site_id), t.job.domain)
           added == IF is_some(t.insert_index)
                    THEN put_at_index(caddy_routes, unwrap(t.insert_index), route)
                    ELSE Some(post_append(caddy_routes, route))
       IN  \/ /\ is_some(added)
              /\ caddy_routes' = unwrap(added)
              /\ WStep(t, [Succeeded(Ran(t, "configure_caddy_route", TRUE)) EXCEPT
                              !.pc = after_configure(t)])
           \/ /\ UNCHANGED caddy_routes
              /\ WStep(t, Failed(t, "configure_caddy_route", <<"f", "a", "i", "l", "e", "d">>))
    /\ UNCHANGED <<sites_dir, status_sent, worker_run>>

\* run_build_pipeline: if state.cloudflare.is_enabled() { ensure_route(&job.domain) },
\* whose error is logged; then the work directory is removed and Ok(url) returned
BuildEnsureRoute(t) ==
    /\ t.pc = "ensure_route"
    /\ \E ok \in BOOLEAN : WStep(t, [Ran(t, "ensure_route", ok) EXCEPT !.pc = "send_result"])
    /\ UNCHANGED <<sites_dir, caddy_routes, status_sent, worker_run>>

\* run_cleanup: if site_dir.exists() { remove_dir_all(&site_dir).await? }
CleanupRemoveSiteDir(t) ==
    /\ t.pc = "remove_site_dir"
    /\ IF exists(sites_dir, site_dir_of(t.site_id))
       THEN \/ /\ sites_dir' = remove_dir_all(sites_dir, site_dir_of(t.site_id))
               /\ WStep(t, [Ran(t, "remove_dir_all", TRUE) EXCEPT
                               !.pc = "send_result",
                               !.result = Some([ok |-> TRUE, value |-> <<>>])])
            \/ /\ UNCHANGED sites_dir
               /\ WStep(t, Failed(t, "remove_dir_all", <<"f", "a", "i", "l", "e", "d">>))
       ELSE /\ UNCHANGED sites_dir
            /\ WStep(t, [t EXCEPT !.pc = "send_result",
                                  !.result = Some([ok |-> TRUE, value |-> <<>>])])
    /\ UNCHANGED <<caddy_routes, status_sent, worker_run>>

\* a Worker that sends the result again until Central has taken it
TaskSendResult_retrying(t) ==
    /\ t.pc = "send_result"
    /\ LET result == unwrap(t.result)
       IN  callback(t, IF ~result.ok
                       THEN StatusUpdate(t.id, "failed", None, Some(result.value))
                       ELSE IF t.job.shape = "BuildJob"
                       THEN StatusUpdate(t.id, "success", Some(result.value), None)
                       ELSE StatusUpdate(t.id, "cleaned", None, None))
    /\ WStep(t, [t EXCEPT !.pc = IF status_sent'[t.id][Len(status_sent'[t.id])].delivered
                                 THEN "done" ELSE "send_result"])
    /\ UNCHANGED <<sites_dir, caddy_routes, worker_run>>

\* execute_build / execute_cleanup: the send_status_update of the match arm taken
TaskSendResult(t) ==
    /\ t.pc = "send_result"
    /\ LET result == unwrap(t.result)
       IN  callback(t, IF ~result.ok
                       THEN StatusUpdate(t.id, "failed", None, Some(result.value))
                       ELSE IF t.job.shape = "BuildJob"
                       THEN StatusUpdate(t.id, "success", Some(result.value), None)
                       ELSE StatusUpdate(t.id, "cleaned", None, None))
    /\ WStep(t, [t EXCEPT !.pc = "done"])
    /\ UNCHANGED <<sites_dir, caddy_routes, worker_run>>

\* the process ends (axum::serve is left without a graceful shutdown): the spawned
\* tasks end with it wherever they are
WorkerStops ==
    /\ worker_run.pc = "serving"
    /\ worker_run' = [worker_run EXCEPT !.pc = "stopped"]
    /\ worker_tasks' = {}
    /\ UNCHANGED <<sites_dir, caddy_routes, status_sent>>

(***************************************************************************)
(* Worker: run().  worker_run holds where the process is and the locals of *)
(* wait_for_caddy_ready (elapsed, in ms) and restore_all_routes (entries   *)
(* still to come from read_dir, restored); ready, skipped and scanned are  *)
(* not locals: they record that GET {admin_api}/config/ was answered with  *)
(* success, that run() logged the skipped restoration, and the entries     *)
(* restore_all_routes has looked at.                                       *)
(***************************************************************************)
NewWorkerRun(pc, cloudflare_enabled) ==
    [pc |-> pc, elapsed |-> 0, entries |-> {}, restored |-> 0, ready |-> FALSE,
     skipped |-> FALSE, scanned |-> {}, cloudflare_enabled |-> cloudflare_enabled]

\* configure_caddy_route run without another request in between: the outcomes
\* [ok, routes] of the DELETE (result dropped), the GET and the PUT or POST
configure_caddy_route(routes, site_id, site_dir, domain) ==
    LET route == CaddyRoute(site_id, site_dir, domain)
        Deleted == {delete_by_id(routes, site_id), routes}
        Added(rs, insert_index) ==
            IF is_some(insert_index) THEN put_at_index(rs, unwrap(insert_index), route)
            ELSE Some(post_append(rs, route))
    IN  UNION {{[ok |-> FALSE, routes |-> rs]}
               \cup {[ok |-> TRUE, routes |-> unwrap(Added(rs, insert_index))]
                     : insert_index \in {i \in {None, find_catch_all_index(rs)} :
                                            is_some(Added(rs, i))}}
               : rs \in Deleted}

\* wait_for_caddy_ready: one turn of the loop.  The GET is answered with success
\* and the function returns Ok; or it is not, and the function bails once
\* start.elapsed() >= CADDY_READY_TIMEOUT and sleeps CADDY_READY_INTERVAL otherwise.
RunWaitForCaddyReady ==
    /\ worker_run.pc = "wait_for_caddy_ready"
    /\ \/ worker_run' = [worker_run EXCEPT !.pc = "restore_all_routes", !.ready = TRUE]
       \/ worker_run' = IF worker_run.elapsed >= CADDY_READY_TIMEOUT
                        THEN [worker_run EXCEPT !.pc = "bind", !.skipped = TRUE]
                        ELSE [worker_run EXCEPT !.elapsed = @ + CADDY_READY_INTERVAL]
    /\ UNCHANGED <<sites_dir, caddy_routes, worker_tasks, status_sent>>

\* restore_all_routes: read_dir(sites_dir), whose error run() logs
RunReadDir ==
    /\ worker_run.pc = "restore_all_routes"
    /\ \/ worker_run' = [worker_run EXCEPT !.pc = "bind"]
       \/ worker_run' = [worker_run EXCEPT
                            !.pc = "next_entry",
                            !.entries = {name \in SiteNames : exists(sites_dir, name)}]
    /\ UNCHANGED <<sites_dir, caddy_routes, worker_tasks, status_sent>>

\* restore_all_routes: one turn of the loop over the entries, in the order read_dir
\* yields them: next_entry fails and ? ends the scan; or the entry is skipped (not
\* a directory, no metadata, unreadable metadata); or its route is configured
RunNextEntry ==
    /\ worker_run.pc = "next_entry"
    /\ IF worker_run.entries = {}
       THEN /\ worker_run' = [worker_run EXCEPT !.pc = "bind"]
            /\ UNCHANGED caddy_routes
       ELSE \/ /\ worker_run' = [worker_run EXCEPT !.pc = "bind", !.entries = {}]
               /\ UNCHANGED caddy_routes
            \/ \E name \in worker_run.entries :
                 LET entry == unwrap(sites_dir[name])
                     looked == [worker_run EXCEPT !.entries = @ \ {name},
                                                  !.scanned = @ \cup {name}]
                 IN  IF ~entry.is_dir \/ is_none(read_site_metadata(sites_dir, name))
                     THEN /\ worker_run' = looked
                          /\ UNCHANGED caddy_routes
                     ELSE \/ /\ worker_run' = looked   \* the metadata cannot be read
                             /\ UNCHANGED caddy_routes
                          \/ \E outcome \in configure_caddy_route(
                                    caddy_routes,
                                    unwrap(read_site_metadata(sites_dir, name)).site_id,
                                    name,
                                    unwrap(read_site_metadata(sites_dir, name)).domain) :
                               /\ caddy_routes' = outcome.routes
                               /\ worker_run' = IF outcome.ok
                                                THEN [looked EXCEPT !.restored = @ + 1]
                                                ELSE looked
    /\ UNCHANGED <<sites_dir, worker_tasks, status_sent>>

\* run(): the router is built, TcpListener::bind(..).await?, axum::serve
RunBind ==
    /\ worker_run.pc = "bind"
    /\ \/ worker_run' = [worker_run EXCEPT !.pc = "serving"]
       \/ worker_run' = [worker_run EXCEPT !.pc = "exited"]
    /\ UNCHANGED <<sites_dir, caddy_routes, worker_tasks, status_sent>>

\* what sites_dir can hold when the process starts: the PR site as a build that
\* reported success leaves it, a directory with metadata, a plain file
SitesAtStart ==
    {[name \in SiteNames |->
         CASE name = generate_site_id(OrgLogin, RepoName, Some(1)) ->
                 IF "pr" \in present THEN Dir({<<1, "all">>}, None) ELSE None
           [] name = LegacySite ->
                 IF "old" \in present
                 THEN write_site_metadata([n \in {name} |-> Dir({<<0, "all">>}, None)], name,
                                          SiteMetadata(LegacySite, MainDomain))[name]
                 ELSE None
           [] name = StrayFile -> IF "file" \in present THEN PlainFile ELSE None
           [] OTHER -> None]
     : present \in SUBSET {"pr", "old", "file"}}

RoutesAtStart == {<<>>, <<CatchAllRoute>>}

BootInit ==
    /\ sites_dir \in SitesAtStart
    /\ caddy_routes \in RoutesAtStart
    /\ worker_tasks = {}
    /\ status_sent = <<>>
    /\ worker_run \in {NewWorkerRun("wait_for_caddy_ready", c) : c \in BOOLEAN}

\* the Worker serving, with nothing deployed yet
WorkerInit ==
    /\ sites_dir = [name \in SiteNames |-> None]
    /\ caddy_routes \in RoutesAtStart
    /\ worker_tasks = {}
    /\ status_sent = <<>>
    /\ worker_run \in {NewWorkerRun("serving", c) : c \in BOOLEAN}

\* the Worker serving again after a restart, with the site of PR 1 published by an
\* earlier build and its route still in the proxy, before the catch-all
DeployedInit ==
    /\ sites_dir = [name \in SiteNames |->
                       IF name = generate_site_id(OrgLogin, RepoName, Some(1))
                       THEN Dir({<<0, "all">>}, None) ELSE None]
    /\ caddy_routes = <<CaddyRoute(generate_site_id(OrgLogin, RepoName, Some(1)),
                                   site_dir_of(generate_site_id(OrgLogin, RepoName, Some(1))),
                                   PrDomain),
                        CatchAllRoute>>
    /\ worker_tasks = {}
    /\ status_sent = <<>>
    /\ worker_run \in {NewWorkerRun("serving", c) : c \in BOOLEAN}

WorkerIdle ==
    /\ sites_dir = [name \in SiteNames |-> None]
    /\ caddy_routes = <<>>
    /\ worker_tasks = {}
    /\ status_sent = <<>>
    /\ worker_run = NewWorkerRun("idle", FALSE)

(***************************************************************************)
(* Central: table workers, written by sync_workers when a process starts   *)
(* and by update_worker_heartbeat, read by get_worker.  A row is           *)
(* [environment, endpoint, enabled, last_seen]; environment is UNIQUE.     *)
(* pool is [now, config, starts, calls, last]: the database clock, the     *)
(* worker map of the running process (None when no process runs), how many *)
(* processes were started, how many calls were made, and the last call     *)
(* with what it returned.                                                  *)
(***************************************************************************)
MaxStarts == 3
MaxCalls == 2
MaxClock == 2

PoolZones == {<<"n", "x">>, <<"e", "u">>}
PoolEndpoints == {WorkerEndpoint, "https://worker-eu"}

\* config.workers: HashMap<String, String> from zone to endpoint, the empty map
\* included; zone nx at either endpoint, zone eu at its own
WorkerMaps ==
    {workers_map \in UNION {[zones -> PoolEndpoints] : zones \in SUBSET PoolZones} :
        <<"e", "u">> \in DOMAIN workers_map => workers_map[<<"e", "u">>] = "https://worker-eu"}

EnabledWorkers(table) == {w \in table : w.enabled}

\* INSERT .. ON CONFLICT (environment) DO UPDATE SET endpoint, enabled = true, last_seen = NOW()
upsert_worker(table, environment, endpoint, now) ==
    {w \in table : w.environment # environment}
    \cup {[environment |-> environment, endpoint |-> endpoint, enabled |-> TRUE,
           last_seen |-> now]}

RECURSIVE upsert_workers(_, _, _)
upsert_workers(table, workers_map, now) ==
    IF DOMAIN workers_map = {} THEN table
    ELSE LET environment == CHOOSE z \in DOMAIN workers_map : TRUE
         IN  upsert_workers(upsert_worker(table, environment, workers_map[environment], now),
                            [z \in DOMAIN workers_map \ {environment} |-> workers_map[z]], now)

\* a sync that disables whatever the map does not name, the empty map included
sync_workers_disabling(table, workers_map, now) ==
    {IF w.environment \notin DOMAIN workers_map THEN [w EXCEPT !.enabled = FALSE] ELSE w
     : w \in upsert_workers(table, workers_map, now)}

\* sync_workers, the committed transaction: the upserts, then, if !workers.is_empty(),
\* UPDATE workers SET enabled = false WHERE environment != ALL($1) AND enabled = true
sync_workers(table, workers_map, now) ==
    LET upserted == upsert_workers(table, workers_map, now)
    IN  IF DOMAIN workers_map # {}
        THEN {IF w.environment \notin DOMAIN workers_map THEN [w EXCEPT !.enabled = FALSE]
              ELSE w : w \in upserted}
        ELSE upserted

\* an update that does not look at enabled
update_worker_heartbeat_any(table, environment, now) ==
    [table |-> {IF w.environment = environment THEN [w EXCEPT !.last_seen = now] ELSE w
                : w \in table},
     updated |-> \E w \in table : w.environment = environment]

\* update_worker_heartbeat: UPDATE workers SET last_seen = NOW() WHERE environment = $1
\* AND enabled = true; Ok(rows_affected > 0)
update_worker_heartbeat(table, environment, now) ==
    [table |-> {IF w.environment = environment /\ w.enabled THEN [w EXCEPT !.last_seen = now]
                ELSE w : w \in table},
     updated |-> \E w \in table : w.environment = environment /\ w.enabled]

NoCall == [op |-> "none"]

NewPool == [now |-> 0, config |-> None, starts |-> 0, calls |-> 0, last |-> NoCall]

Called(call) == [pool EXCEPT !.calls = @ + 1, !.last = call]

\* the database clock moves on
PoolTick ==
    /\ pool.now < MaxClock
    /\ pool' = [pool EXCEPT !.now = @ + 1]
    /\ UNCHANGED <<workers, monitor>>

\* the Central process ends, its monitor task with it
CentralStops ==
    /\ is_some(pool.config)
    /\ pool' = [pool EXCEPT !.config = None]
    /\ monitor' = [monitor EXCEPT !.pc = "off"]
    /\ UNCHANGED workers

\* central/handlers/heartbeat.rs handle_heartbeat for a signed request naming a zone:
\* 500 on a database error, 200 when a row was updated, 404 when none was
PoolHeartbeat ==
    /\ is_some(pool.config)
    /\ pool.calls < MaxCalls
    /\ \E zone \in PoolZones :
         LET req == SignedRequest([shape |-> "HeartbeatRequest", zone |-> zone], SignTime)
             parsed == handle_heartbeat(req, SignTime)
             request == unwrap(parsed.spawn)
             done == update_worker_heartbeat(workers, request.zone, pool.now)
         IN  /\ is_some(parsed.spawn)
             /\ \/ /\ UNCHANGED workers
                   /\ pool' = Called([op |-> "heartbeat", zone |-> zone, code |-> 500])
                \/ /\ workers' = done.table
                   /\ pool' = Called([op |-> "heartbeat", zone |-> zone,
                                      code |-> IF done.updated THEN 200 ELSE 404])
    /\ UNCHANGED monitor

\* process_webhook_event: get_worker(zone) of an event whose config names the zone; a
\* job is dispatched to the endpoint of the row found, and none when none is found
PoolGetWorker ==
    /\ is_some(pool.config)
    /\ pool.calls < MaxCalls
    /\ \E zone \in PoolZones : \E found \in get_worker(workers, zone) :
         pool' = Called([op |-> "get_worker", zone |-> zone, found |-> found,
                         dispatched_to |-> IF is_some(found) THEN Some(unwrap(found).endpoint)
                                           ELSE None])
    /\ UNCHANGED <<workers, monitor>>

(***************************************************************************)
(* Central: WorkerMonitor.  monitor holds the fields of the struct         *)
(* (workers, config) and the locals of run / initial_check /               *)
(* check_all_workers: todo is what the iteration over the map has not      *)
(* yielded yet, zone the entry at hand, attempt and delay as in the code.  *)
(* waits, answered, probed and last are not locals: the delays slept for   *)
(* the entry at hand, whether it answered 2xx in this pass, the zones      *)
(* probed in this pass, and the last probe with its outcome.               *)
(***************************************************************************)
\* impl Default for MonitorConfig, in seconds
DefaultMonitorConfig ==
    [check_interval |-> 30, request_timeout |-> 5, max_retries |-> 3,
     initial_retry_delay |-> 1, max_retry_delay |-> 30]

\* the configs a WorkerMonitor can be made with: the default, which server.rs run()
\* passes, and one with more retries, with which the delay reaches max_retry_delay
MonitorConfigs == {DefaultMonitorConfig, [DefaultMonitorConfig EXCEPT !.max_retries = 7]}

MonitorOff ==
    [pc |-> "off", workers |-> <<>>, config |-> DefaultMonitorConfig, todo |-> {}, zone |-> None,
     attempt |-> 0, delay |-> 0, waits |-> <<>>, answered |-> FALSE, probed |-> {},
     last |-> NoCall]

\* WorkerMonitor::new(db, workers, config).start(): run() begins with initial_check
NewMonitor(workers_map, config) ==
    [MonitorOff EXCEPT !.pc = "initial_check", !.workers = workers_map, !.config = config,
                       !.todo = DOMAIN workers_map]

min(a, b) == IF a <= b THEN a ELSE b

\* a probe that stamps last_seen before it looks at the answer
check_worker_health_eager(table, zone, now) ==
    {[status |-> status, ok |-> FALSE, table |-> update_worker_heartbeat(table, zone, now).table]
     : status \in {None, Some(503)}}
    \cup {[status |-> Some(200), ok |-> FALSE, table |-> table],
          [status |-> Some(200), ok |-> TRUE,
           table |-> update_worker_heartbeat(table, zone, now).table]}

\* check_worker_health(zone, endpoint): GET {endpoint}/health fails (no status) or is
\* answered; not 2xx is an error; on 2xx update_worker_heartbeat(zone), whose database
\* error is the function's error and whose bool is dropped
check_worker_health(table, zone, now) ==
    {[status |-> status, ok |-> FALSE, table |-> table] : status \in {None, Some(503)}}
    \cup {[status |-> Some(200), ok |-> FALSE, table |-> table],
          [status |-> Some(200), ok |-> TRUE,
           table |-> update_worker_heartbeat(table, zone, now).table]}

Probed(m, zone, outcome) ==
    [m EXCEPT !.probed = @ \cup {zone},
              !.answered = @ \/ outcome.status = Some(200),
              !.last = [op |-> "probe", zone |-> zone, status |-> outcome.status,
                        ok |-> outcome.ok]]

\* server.rs run: if !config.workers.is_empty() { sync_workers(..)?; monitor.start() };
\* a sync that fails ends the process before it serves
CentralStart ==
    /\ is_none(pool.config)
    /\ pool.starts < MaxStarts
    /\ \E workers_map \in WorkerMaps :
         LET started == [pool EXCEPT !.starts = @ + 1, !.config = Some(workers_map),
                                     !.last = [op |-> "start", workers |-> workers_map]]
         IN  IF DOMAIN workers_map = {}
             THEN /\ pool' = started
                  /\ monitor' = MonitorOff
                  /\ UNCHANGED workers
             ELSE \/ /\ pool' = [pool EXCEPT !.starts = @ + 1,
                                             !.last = [op |-> "start failed",
                                                       workers |-> workers_map]]
                     /\ UNCHANGED <<workers, monitor>>
                  \/ /\ pool' = started
                     /\ workers' = sync_workers(workers, workers_map, pool.now)
                     /\ monitor' = NewMonitor(workers_map, DefaultMonitorConfig)

\* initial_check: the for loop takes the next entry of the map, or the pass is over
\* and run() goes on to its interval
MonitorNextWorker ==
    /\ monitor.pc = "initial_check"
    /\ IF monitor.todo = {}
       THEN monitor' = [monitor EXCEPT !.pc = "tick", !.zone = None]
       ELSE \E zone \in monitor.todo :
              monitor' = [monitor EXCEPT !.pc = "initial_probe", !.zone = Some(zone),
                                         !.todo = @ \ {zone},
                                         !.delay = monitor.config.initial_retry_delay,
                                         !.attempt = 0, !.waits = <<>>, !.answered = FALSE]
    /\ UNCHANGED <<workers, pool>>

\* initial_check: attempt += 1; match check_worker_health: Ok breaks, Err breaks when
\* attempt >= max_retries and sleeps otherwise
MonitorInitialProbe ==
    /\ monitor.pc = "initial_probe"
    /\ \E outcome \in check_worker_health(workers, unwrap(monitor.zone), pool.now) :
         LET m == [Probed(monitor, unwrap(monitor.zone), outcome) EXCEPT !.attempt = @ + 1]
         IN  /\ workers' = outcome.table
             /\ monitor' = IF outcome.ok \/ m.attempt >= m.config.max_retries
                           THEN [m EXCEPT !.pc = "initial_check"]
                           ELSE [m EXCEPT !.pc = "initial_sleep"]
    /\ UNCHANGED pool

\* a sleep whose delay doubles without the cap
MonitorSleep_uncapped ==
    /\ monitor.pc = "initial_sleep"
    /\ monitor' = [monitor EXCEPT !.pc = "initial_probe",
                                  !.waits = Append(@, monitor.delay),
                                  !.delay = monitor.delay * 2]
    /\ UNCHANGED <<workers, pool>>

\* initial_check: sleep(delay).await; delay = min(delay * 2, max_retry_delay)
MonitorSleep ==
    /\ monitor.pc = "initial_sleep"
    /\ monitor' = [monitor EXCEPT !.pc = "initial_probe",
                                  !.waits = Append(@, monitor.delay),
                                  !.delay = min(monitor.delay * 2, monitor.config.max_retry_delay)]
    /\ UNCHANGED <<workers, pool>>

\* run: check_interval.tick().await, then check_all_workers
MonitorTick ==
    /\ monitor.pc = "tick"
    /\ monitor' = [monitor EXCEPT !.pc = "check_all_workers", !.todo = DOMAIN monitor.workers,
                                  !.probed = {}, !.zone = None, !.answered = FALSE,
                                  !.waits = <<>>, !.attempt = 0, !.delay = 0]
    /\ UNCHANGED <<workers, pool>>

\* check_all_workers: one check_worker_health per entry, its error logged; after the
\* last entry back to the tick
MonitorCheckWorker ==
    /\ monitor.pc = "check_all_workers"
    /\ IF monitor.todo = {}
       THEN /\ monitor' = [monitor EXCEPT !.pc = "tick"]
            /\ UNCHANGED workers
       ELSE \E zone \in monitor.todo :
              \E outcome \in check_worker_health(workers, zone, pool.now) :
                /\ workers' = outcome.table
                /\ monitor' = [Probed(monitor, zone, outcome) EXCEPT !.todo = @ \ {zone},
                                                                     !.zone = Some(zone)]
    /\ UNCHANGED pool

PoolInit ==
    /\ workers = {}
    /\ pool = NewPool
    /\ monitor = MonitorOff

PoolIdle == pool = NewPool /\ monitor = MonitorOff

\* a Central process that has synced a nonempty worker map and started its monitor
MonitorInit ==
    /\ \E workers_map \in WorkerMaps \ {<<>>} : \E config \in MonitorConfigs :
          /\ workers = sync_workers({}, workers_map, 0)
          /\ pool = [NewPool EXCEPT !.config = Some(workers_map), !.starts = 1,
                                    !.last = [op |-> "start", workers |-> workers_map]]
          /\ monitor = NewMonitor(workers_map, config)

(***************************************************************************)
(* Harness: sequences of store_job_context on one table                    *)
(***************************************************************************)
MaxStores == 3

StoreJobIds == {1, 2}
StoreContexts ==
    {[installation_id |-> 1, org |-> <<"a", "c", "m", "e">>, repo |-> <<"w", "e", "b">>, commit_sha |-> <<"a", "1">>],
     [installation_id |-> 2, org |-> <<"b", "e", "t", "a">>, repo |-> <<"a", "p", "i">>, commit_sha |-> <<"b", "2">>],
     [installation_id |-> 1, org |-> <<"b", "e", "t", "a">>, repo |-> <<"w", "e", "b">>, commit_sha |-> <<"b", "2">>]}
StoreCommentIds == {None, Some(1), Some(2)}

StoresInit ==
    /\ job_context = {}
    /\ calc = [op |-> "store_job_context", stores |-> <<>>]

\* one store_job_context(job_id, installation_id, org, repo, comment_id, commit_sha)
\* that the database executes
StoreJobContext ==
    /\ calc.op = "store_job_context"
    /\ Len(calc.stores) < MaxStores
    /\ \E job_id \in StoreJobIds, c \in StoreContexts, comment_id \in StoreCommentIds :
          /\ job_context' = store_job_context(job_context, job_id, c.installation_id, c.org,
                                              c.repo, comment_id, c.commit_sha)
          /\ calc' = [calc EXCEPT !.stores =
                         Append(@, [job_id |-> job_id, installation_id |-> c.installation_id,
                                    github_org |-> c.org, github_repo |-> c.repo,
                                    github_comment_id |-> comment_id,
                                    commit_sha |-> c.commit_sha])]

(***************************************************************************)
(* worker/builder/clone.rs: clone_repository and what its error becomes    *)
(***************************************************************************)
MaxStderr == 3

\* git tokens, and what git can print: any text over the characters of the tokens and
\* one other character
GitTokens == {<<"Q", "7">>, <<"Q">>}
StderrChars == {"Q", "7", "z"}
Stderrs == StringsUpTo(StderrChars, MaxStderr)
CloneUrls == {<<"h", "t", "t", "p", "s", ":", "/", "/", "h", "/", "r">>, <<"g", "i", "t", ":", "/", "/", "h", "/", "r">>, <<"s", "s", "h", ":", "/", "/", "h", "/", "r">>}

\* str::contains
contains(s, sub) == \E i \in 0..(Len(s) - Len(sub)) : SubSeq(s, i + 1, i + Len(sub)) = sub

\* insert_token_in_url: Ok(url with the token) or Err(message)
insert_token_in_url(url, token) ==
    IF starts_with(url, <<"h", "t", "t", "p", "s", ":", "/", "/">>)
    THEN [ok |-> TRUE, value |-> <<"h", "t", "t", "p", "s", ":", "/", "/", "x", "-", "a", "c", "c", "e", "s", "s", "-", "t", "o", "k", "e", "n", ":">> \o token \o <<"@">>
                                  \o from_index(url, Len(<<"h", "t", "t", "p", "s", ":", "/", "/">>))]
    ELSE IF starts_with(url, <<"g", "i", "t", ":", "/", "/">>)
    THEN [ok |-> TRUE, value |-> <<"h", "t", "t", "p", "s", ":", "/", "/", "x", "-", "a", "c", "c", "e", "s", "s", "-", "t", "o", "k", "e", "n", ":">> \o token \o <<"@">>
                                  \o from_index(url, Len(<<"g", "i", "t", ":", "/", "/">>))]
    ELSE [ok |-> FALSE, value |-> <<"U", "n", "s", "u", "p", "p", "o", "r", "t", "e", "d", " ", "U", "R", "L", " ", "f", "o", "r", "m", "a", "t", ":", " ">> \o url]

\* the error of a git subprocess that ran and exited with a failure: clone and fetch
\* replace the token in stderr, checkout formats stderr as it is
git_failed(step, stderr, token) ==
    CASE step = "git clone" -> <<"g", "i", "t", " ", "c", "l", "o", "n", "e", " ", "f", "a", "i", "l", "e", "d", ":", " ">> \o replace(stderr, token, <<"[", "R", "E", "D", "A", "C", "T", "E", "D", "]">>)
      [] step = "git fetch" -> <<"g", "i", "t", " ", "f", "e", "t", "c", "h", " ", "f", "a", "i", "l", "e", "d", ":", " ">> \o replace(stderr, token, <<"[", "R", "E", "D", "A", "C", "T", "E", "D", "]">>)
      [] step = "git checkout" -> <<"g", "i", "t", " ", "c", "h", "e", "c", "k", "o", "u", "t", " ", "f", "a", "i", "l", "e", "d", ":", " ">> \o stderr

\* the context of a subprocess that could not be run
git_not_run(step) ==
    CASE step = "git clone" -> <<"F", "a", "i", "l", "e", "d", " ", "t", "o", " ", "e", "x", "e", "c", "u", "t", "e", " ", "g", "i", "t", " ", "c", "l", "o", "n", "e">>
      [] step = "git fetch" -> <<"F", "a", "i", "l", "e", "d", " ", "t", "o", " ", "f", "e", "t", "c", "h", " ", "c", "o", "m", "m", "i", "t">>
      [] step = "git checkout" -> <<"F", "a", "i", "l", "e", "d", " ", "t", "o", " ", "c", "h", "e", "c", "k", "o", "u", "t", " ", "c", "o", "m", "m", "i", "t">>

CloneInit ==
    \E token \in GitTokens, repo_url \in CloneUrls :
       calc = [op |-> "clone_repository", pc |-> "insert_token_in_url", token |-> token,
               repo_url |-> repo_url, error |-> None, error_message |-> None]

\* let auth_url = insert_token_in_url(repo_url, token)?
CloneInsertToken ==
    /\ calc.op = "clone_repository" /\ calc.pc = "insert_token_in_url"
    /\ LET auth_url == insert_token_in_url(calc.repo_url, calc.token)
       IN  calc' = IF auth_url.ok THEN [calc EXCEPT !.pc = "git clone"]
                   ELSE [calc EXCEPT !.pc = "failed", !.error = Some(auth_url.value)]

\* Command::new("git")...output().await.context(..)?; if !output.status.success() bail
GitStep(step, next) ==
    /\ calc.op = "clone_repository" /\ calc.pc = step
    /\ \/ calc' = [calc EXCEPT !.pc = "failed", !.error = Some(git_not_run(step))]
       \/ \E stderr \in Stderrs :
             calc' = [calc EXCEPT !.pc = "failed",
                                  !.error = Some(git_failed(step, stderr, calc.token))]
       \/ calc' = [calc EXCEPT !.pc = next]

CloneGitClone == GitStep("git clone", "git fetch")
CloneGitFetch == GitStep("git fetch", "git checkout")
CloneGitCheckout == GitStep("git checkout", "cloned")

\* execute_build: Err(e) => StatusUpdate { status: Failed, error_message: Some(e.to_string()) }
CloneReportFailure ==
    /\ calc.op = "clone_repository" /\ calc.pc = "failed"
    /\ calc' = [calc EXCEPT !.pc = "reported", !.error_message = calc.error]

(***************************************************************************)
(* Harness: DeployConfig::resolve_domain and resolve_pr_domain on configs  *)
(***************************************************************************)
ResolveRepos == {<<"W", "e", "b">>, <<"a", "p", "i">>}
ResolvePrs == {7, 42}
ResolveConfigs ==
    {[DefaultDeployConfig EXCEPT !.domain = domain, !.subdomain = subdomain,
                                 !.domain_pattern = domain_pattern, !.pr_pattern = pr_pattern]
     : domain \in {None, Some(<<"n", "x", "m", ".", "r", "s">>)},
       subdomain \in {None, Some(<<"w", "w", "w">>)},
       domain_pattern \in {None, Some(<<"{", "r", "e", "p", "o", "}", ".", "d", ".", "i", "o">>), Some(<<"s", ".", "{", "r", "e", "p", "o", "}", "-", "{", "r", "e", "p", "o", "}", ".", "i", "o">>)},
       pr_pattern \in {None, Some(<<"{", "r", "e", "p", "o", "}", "-", "{", "p", "r", "}", ".", "p", ".", "i", "o">>), Some(<<"p", "r", "{", "p", "r", "}", ".", "{", "p", "r", "}", ".", "i", "o">>), Some(<<"f", "i", "x", "e", "d", ".", "i", "o">>)}}

ResolveInit ==
    \E config \in ResolveConfigs, repo \in ResolveRepos, pr \in ResolvePrs :
       calc = [op |-> "resolve", config |-> config, repo |-> repo, pr_number |-> pr,
               main |-> None, pr |-> None]

\* config.resolve_domain(repo); the result is kept as Some(result)
ResolveDomain ==
    /\ calc.op = "resolve" /\ is_none(calc.main)
    /\ calc' = [calc EXCEPT !.main = Some(resolve_domain(calc.config, calc.repo))]

\* config.resolve_pr_domain(repo, pr_number); the result is kept as Some(result)
ResolvePrDomain ==
    /\ calc.op = "resolve" /\ is_none(calc.pr)
    /\ calc' = [calc EXCEPT !.pr = Some(resolve_pr_domain(calc.config, calc.repo,
                                                          calc.pr_number))]

(***************************************************************************)
(* Harness: DeployConfig::merge on pairs of configs                        *)
(***************************************************************************)
MergeOptions == {"zone", "domain_pattern", "pr_pattern", "domain", "subdomain", "build_type",
                 "build_command", "output_dir"}

\* which options a config sets: none, all, one, all but one
MergeOptionSets ==
    {{}, MergeOptions} \cup {{o} : o \in MergeOptions} \cup {MergeOptions \ {o} : o \in MergeOptions}

\* configs whose options are unset or set to the value of their side
MergeConfigs(side) ==
    {[zone |-> IF "zone" \in set THEN Some(side) ELSE None,
      domain_pattern |-> IF "domain_pattern" \in set THEN Some(side) ELSE None,
      pr_pattern |-> IF "pr_pattern" \in set THEN Some(side) ELSE None,
      domain |-> IF "domain" \in set THEN Some(side) ELSE None,
      subdomain |-> IF "subdomain" \in set THEN Some(side) ELSE None,
      build_type |-> IF "build_type" \in set THEN Some(side) ELSE None,
      build_command |-> IF "build_command" \in set THEN Some(side) ELSE None,
      output_dir |-> IF "output_dir" \in set THEN Some(side) ELSE None,
      enabled |-> enabled]
     : set \in MergeOptionSets, enabled \in BOOLEAN}

MergeInit ==
    \E a \in MergeConfigs(<<"a">>), b \in MergeConfigs(<<"b">>) :
       calc = [op |-> "merge", a |-> a, b |-> b, merged |-> None, again |-> None]

\* let mut c = a; c.merge(&b)
MergeOnce ==
    /\ calc.op = "merge" /\ is_none(calc.merged)
    /\ calc' = [calc EXCEPT !.merged = Some(merge(calc.a, calc.b))]

\* c.merge(&b) a second time
MergeAgain ==
    /\ calc.op = "merge" /\ is_some(calc.merged) /\ is_none(calc.again)
    /\ calc' = [calc EXCEPT !.again = Some(merge(unwrap(calc.merged), calc.b))]


(***************************************************************************)
(* Harness: fetch_deploy_config on the two .deploy.json files as they are  *)
(* written.  A file is the set of keys it mentions and their values; None  *)
(* is a file GitHub answers 404 for.                                       *)
(***************************************************************************)
FileKeys == {"zone", "pr_pattern", "enabled"}

\* the files of one side; the value of a key the file does not mention is not read
DeployFiles(side) ==
    {None}
    \cup {Some([keys |-> keys, zone |-> side, pr_pattern |-> side, enabled |-> TRUE])
          : keys \in SUBSET (FileKeys \ {"enabled"})}
    \cup {Some([keys |-> keys \cup {"enabled"}, zone |-> side, pr_pattern |-> side,
                enabled |-> enabled])
          : keys \in SUBSET (FileKeys \ {"enabled"}), enabled \in BOOLEAN}

\* fn default_enabled
default_enabled == TRUE

\* serde_json::from_str::<DeployConfig>: a key the file does not mention takes its
\* serde default, None for an option and default_enabled() for enabled
from_str(file) ==
    [DefaultDeployConfig EXCEPT
        !.zone = IF "zone" \in file.keys THEN Some(file.zone) ELSE None,
        !.pr_pattern = IF "pr_pattern" \in file.keys THEN Some(file.pr_pattern) ELSE None,
        !.enabled = IF "enabled" \in file.keys THEN file.enabled ELSE default_enabled]

\* fetch_config_file, answered: Ok(None) on 404, else Ok(Some(config))
fetch_config_file(file) == IF is_none(file) THEN None ELSE Some(from_str(unwrap(file)))

FetchInit ==
    \E org_file \in DeployFiles(<<"o">>), repo_file \in DeployFiles(<<"r">>) :
       calc = [op |-> "fetch", pc |-> "org", org_file |-> org_file, repo_file |-> repo_file,
               org_config |-> None, repo_config |-> None, deploy_config |-> None,
               proceeds |-> FALSE]

\* fetch_deploy_config: fetch_config_file(org, ".github", ".deploy.json").await?
FetchOrgConfig ==
    /\ calc.op = "fetch" /\ calc.pc = "org"
    /\ calc' = [calc EXCEPT !.pc = "repo", !.org_config = fetch_config_file(calc.org_file)]

\* fetch_deploy_config: fetch_config_file(org, repo, ".deploy.json").await?, then the
\* match that merges
FetchRepoConfig ==
    /\ calc.op = "fetch" /\ calc.pc = "repo"
    /\ LET repo_config == fetch_config_file(calc.repo_file)
       IN  calc' = [calc EXCEPT !.pc = "match", !.repo_config = repo_config,
                                !.deploy_config = fetch_deploy_config(calc.org_config,
                                                                      repo_config)]

\* process_webhook_event: the match on the merged config; the event goes on to the
\* authorization and the dispatch only with Some(config) if config.is_deployable()
FetchMatch ==
    /\ calc.op = "fetch" /\ calc.pc = "match"
    /\ calc' = [calc EXCEPT !.pc = "done",
                            !.proceeds = /\ is_some(calc.deploy_config)
                                         /\ is_deployable(unwrap(calc.deploy_config))]

(***************************************************************************)
(* worker/deploy/cloudflare.rs: ensure_route on the tunnel's ingress list. *)
(* A call is the locals of ensure_route, one step per .await.  The Worker  *)
(* runs every job in its own task, so calls overlap.                       *)
(***************************************************************************)
MaxEnsureCalls == 3

\* CloudflareConfig.service_url
ServiceUrl == "http://localhost:8080"

\* job.domain of the jobs, and a hostname somebody else put into the tunnel
TunnelHostnames == {"a.n", "b.n"}
ForeignHostname == "x.n"

TunnelIngressRule(hostname, service) == [hostname |-> hostname, service |-> service]

\* the rule ensure_tunnel_ingress pushes when the list has no rule without hostname
SyntheticCatchAll == TunnelIngressRule(None, "http_status:404")

\* the ingress lists the tunnel can hold before the first call: none at all, or
\* rules with distinct hostnames followed by the catch-all the API insists on
IngressAtStart ==
    {<<>>,
     <<SyntheticCatchAll>>,
     <<TunnelIngressRule(None, ServiceUrl)>>,
     <<TunnelIngressRule(Some(ForeignHostname), "http://other"), SyntheticCatchAll>>,
     <<TunnelIngressRule(Some("a.n"), ServiceUrl), SyntheticCatchAll>>,
     <<TunnelIngressRule(Some("b.n"), ServiceUrl),
       TunnelIngressRule(Some(ForeignHostname), "http://other"),
       TunnelIngressRule(None, ServiceUrl)>>}

\* ingress.iter().any(|rule| rule.hostname.as_deref() == Some(hostname))
ingress_has(ingress, hostname) == \E i \in 1..Len(ingress) : ingress[i].hostname = Some(hostname)

\* ingress.iter().any(|r| r.hostname.is_none())
has_catch_all(ingress) == \E i \in 1..Len(ingress) : is_none(ingress[i].hostname)

\* ingress.iter().position(|r| r.hostname.is_none()).unwrap_or(ingress.len()), from 0
insert_pos(ingress) ==
    IF has_catch_all(ingress)
    THEN (CHOOSE i \in 1..Len(ingress) :
             /\ is_none(ingress[i].hostname)
             /\ \A j \in 1..(i - 1) : is_some(ingress[j].hostname)) - 1
    ELSE Len(ingress)

\* Vec::insert(pos, rule)
vec_insert(list, pos, rule) == SubSeq(list, 1, pos) \o <<rule>> \o SubSeq(list, pos + 1, Len(list))

\* an edit that pushes the new rule at the end of the list
edit_ingress_pushing(ingress, hostname) ==
    LET inserted == Append(ingress, TunnelIngressRule(Some(hostname), ServiceUrl))
    IN  IF has_catch_all(inserted) THEN inserted ELSE Append(inserted, SyntheticCatchAll)

\* ensure_tunnel_ingress between its GET and its PUT: the new rule inserted before the
\* first rule without hostname, a catch-all pushed when there is none
edit_ingress(ingress, hostname) ==
    LET inserted == vec_insert(ingress, insert_pos(ingress),
                               TunnelIngressRule(Some(hostname), ServiceUrl))
    IN  IF has_catch_all(inserted) THEN inserted ELSE Append(inserted, SyntheticCatchAll)

\* the locals of one ensure_route(hostname); read and result are not locals: read is
\* the list the GET returned, result is what ensure_tunnel_ingress returned
NewEnsureCall(id, hostname) ==
    [id |-> id, hostname |-> hostname, pc |-> "get_tunnel_config", read |-> None,
     tunnel_config |-> None, put |-> FALSE, ingress_result |-> None, result |-> None]

TunnelIdle == [ingress |-> <<>>, dns |-> {}, calls |-> {}, started |-> 0, puts |-> 0]

TunnelInit ==
    \E ingress \in IngressAtStart :
       tunnel = [TunnelIdle EXCEPT !.ingress = ingress]

\* the call with c replaced by its next state
EnsureStep(c, next) == [tunnel EXCEPT !.calls = (@ \ {c}) \cup {next}]

\* run_build_pipeline: state.cloudflare.ensure_route(&job.domain), in the task of a job
EnsureRouteStart ==
    /\ tunnel.started < MaxEnsureCalls
    /\ \E hostname \in TunnelHostnames :
          tunnel' = [tunnel EXCEPT !.started = @ + 1,
                                   !.calls = @ \cup {NewEnsureCall(tunnel.started + 1, hostname)}]

\* ensure_tunnel_ingress: get_tunnel_config(..).await?, then the check, the edit
EnsureGetTunnelConfig(c) ==
    /\ c.pc = "get_tunnel_config"
    /\ \/ tunnel' = EnsureStep(c, [c EXCEPT !.pc = "done", !.ingress_result = Some("Err"),
                                            !.result = Some("Err")])
       \/ tunnel' = EnsureStep(c,
             IF ingress_has(tunnel.ingress, c.hostname)
             THEN [c EXCEPT !.pc = "get_dns_record", !.read = Some(tunnel.ingress),
                            !.ingress_result = Some("Ok")]
             ELSE [c EXCEPT !.pc = "update_tunnel_config", !.read = Some(tunnel.ingress),
                            !.tunnel_config = Some(edit_ingress(tunnel.ingress, c.hostname))])

\* ensure_tunnel_ingress: update_tunnel_config(..).await?: the PUT replaces the list
EnsureUpdateTunnelConfig(c) ==
    /\ c.pc = "update_tunnel_config"
    /\ \/ tunnel' = EnsureStep(c, [c EXCEPT !.pc = "done", !.ingress_result = Some("Err"),
                                            !.result = Some("Err")])
       \/ tunnel' = [EnsureStep(c, [c EXCEPT !.pc = "get_dns_record", !.put = TRUE,
                                             !.ingress_result = Some("Ok")])
                        EXCEPT !.ingress = unwrap(c.tunnel_config), !.puts = @ + 1]

\* ensure_dns_record: get_dns_record(..).await?, then create or update or nothing; the
\* record of a hostname points at the tunnel afterwards
EnsureDnsRecord(c) ==
    /\ c.pc = "get_dns_record"
    /\ \/ tunnel' = EnsureStep(c, [c EXCEPT !.pc = "done", !.result = Some("Err")])
       \/ tunnel' = [EnsureStep(c, [c EXCEPT !.pc = "done", !.result = Some("Ok")])
                        EXCEPT !.dns = @ \cup {c.hostname}]

(***************************************************************************)
(* worker/builder/network.rs: ensure_build_network and the iptables rules. *)
(* A call is the locals of ensure_build_network, one step per .await; every *)
(* build calls it (podman.rs 128), so calls overlap.                        *)
(***************************************************************************)
MaxNetworkCalls == 2
MaxSubnet == 2

\* a CIDR block whose mask is a whole number of octets, or one of RFC1918_RANGES
Cidr(o1, o2, o3, bits) == [octets |-> <<o1, o2, o3, 0>>, bits |-> bits]

RFC1918_RANGES == <<Cidr(10, 0, 0, 8), Cidr(172, 16, 0, 12), Cidr(192, 168, 0, 16)>>

\* format!("10.89.{}.0/24", x)
BuildSubnet(x) == Cidr(10, 89, x, 24)

\* subnets_overlap on blocks whose masks are whole octets: the octets under the
\* shorter mask are the same
subnets_overlap(a, b) ==
    LET common == IF a.bits <= b.bits THEN a.bits ELSE b.bits
    IN  \A i \in 1..(common \div 8) : a.octets[i] = b.octets[i]

\* find_available_subnet: the first 10.89.x.0/24 that is not used and overlaps no
\* used subnet; None stands for the bail
find_available_subnet(used_subnets) ==
    LET free == {x \in 0..MaxSubnet :
                    /\ BuildSubnet(x) \notin used_subnets
                    /\ ~\E used \in used_subnets : subnets_overlap(BuildSubnet(x), used)}
    IN  IF free = {} THEN None
        ELSE Some(BuildSubnet(CHOOSE x \in free : \A y \in free : x <= y))

\* -s source -d dest -j target in the chain; -s source -j chain in FORWARD
IptablesRule(source, dest, target) == [s |-> source, d |-> dest, j |-> target]
JumpRule(source) == [s |-> source, j |-> "CATAPULT_BUILD_ISOLATION"]

\* ensure_iptables_rules: the add_iptables_rule calls of the loop over RFC1918_RANGES,
\* in order: the ACCEPT for the subnet itself goes before the DROP of 10.0.0.0/8
rules_to_add(source_subnet) ==
    <<IptablesRule(source_subnet, source_subnet, "ACCEPT"),
      IptablesRule(source_subnet, RFC1918_RANGES[1], "DROP"),
      IptablesRule(source_subnet, RFC1918_RANGES[2], "DROP"),
      IptablesRule(source_subnet, RFC1918_RANGES[3], "DROP")>>

seq_has(list, x) == \E i \in 1..Len(list) : list[i] = x

\* the filter table and the podman networks before the first call: the chain missing,
\* empty, or holding the rules of 10.89.0.0/24; the build network missing or on
\* 10.89.0.0/24; 10.89.0.0/24 taken by another network or not
HostsAtStart ==
    {h \in [permitted : BOOLEAN,
            chain : {None, Some(<<>>), Some(rules_to_add(BuildSubnet(0)))},
            forward : {<<>>, <<JumpRule(BuildSubnet(0))>>},
            build_network : {None, Some(BuildSubnet(0))},
            networks : {{}, {BuildSubnet(0)}, {Cidr(10, 88, 0, 24), Cidr(10, 89, 0, 16)}},
            calls : {{}}, started : {0}] :
        /\ is_some(h.build_network) => h.networks = {}
        /\ ~h.permitted => is_none(h.chain) /\ h.forward = <<>>}

IptablesIdle ==
    [permitted |-> FALSE, chain |-> None, forward |-> <<>>, build_network |-> None,
     networks |-> {}, calls |-> {}, started |-> 0]

IptablesInit == iptables \in HostsAtStart

\* the locals of one ensure_build_network; created is not a local: it tells whether
\* this call's iptables -N made the chain
NewNetworkCall(id) ==
    [id |-> id, pc |-> "inspect_network", subnet |-> None, todo |-> <<>>, created |-> FALSE,
     result |-> None]

NetworkStep(c, next) == [iptables EXCEPT !.calls = (@ \ {c}) \cup {next}]
Returned(c, result) == [c EXCEPT !.pc = "done", !.result = Some(result)]

\* create_container: ensure_build_network(&docker), in the task of a build job
EnsureBuildNetworkStart ==
    /\ iptables.started < MaxNetworkCalls
    /\ iptables' = [iptables EXCEPT !.started = @ + 1,
                                    !.calls = @ \cup {NewNetworkCall(iptables.started + 1)}]

\* docker.inspect_network(BUILD_NETWORK_NAME): the network with its subnet, 404, or
\* another error
NetworkInspect(c) ==
    /\ c.pc = "inspect_network"
    /\ \/ iptables' = NetworkStep(c, Returned(c, "Err"))
       \/ iptables' = NetworkStep(c,
             IF is_some(iptables.build_network)
             THEN [c EXCEPT !.pc = "check_chain", !.subnet = iptables.build_network]
             ELSE [c EXCEPT !.pc = "list_networks"])

\* find_available_subnet: docker.list_networks, then the first free 10.89.x.0/24
NetworkListNetworks(c) ==
    /\ c.pc = "list_networks"
    /\ LET used == iptables.networks \cup
                   (IF is_some(iptables.build_network) THEN {unwrap(iptables.build_network)}
                    ELSE {})
           subnet == find_available_subnet(used)
       IN  \/ iptables' = NetworkStep(c, Returned(c, "Err"))
           \/ /\ is_some(subnet)
              /\ iptables' = NetworkStep(c, [c EXCEPT !.pc = "create_network", !.subnet = subnet])

\* docker.create_network(options): refused when the name is taken by now
NetworkCreate(c) ==
    /\ c.pc = "create_network"
    /\ IF is_some(iptables.build_network)
       THEN iptables' = NetworkStep(c, Returned(c, "Err"))
       ELSE \/ iptables' = NetworkStep(c, Returned(c, "Err"))
            \/ iptables' = [NetworkStep(c, [c EXCEPT !.pc = "check_chain"])
                               EXCEPT !.build_network = c.subnet]

\* ensure_iptables_rules: iptables -n -L CATAPULT_BUILD_ISOLATION; when it succeeds
\* the function returns Ok(())
NetworkCheckChain(c) ==
    /\ c.pc = "check_chain"
    /\ iptables' = NetworkStep(c,
          IF iptables.permitted /\ is_some(iptables.chain)
          THEN Returned(c, "Ok")
          ELSE [c EXCEPT !.pc = "new_chain"])

\* ensure_iptables_rules: iptables -N CATAPULT_BUILD_ISOLATION; a failure other than
\* "Chain already exists" is logged and the function returns Ok(())
NetworkNewChain(c) ==
    /\ c.pc = "new_chain"
    /\ IF ~iptables.permitted
       THEN iptables' = NetworkStep(c, Returned(c, "Ok"))
       ELSE IF is_some(iptables.chain)
       THEN iptables' = NetworkStep(c, [c EXCEPT !.pc = "check_rule",
                                                 !.todo = rules_to_add(unwrap(c.subnet))])
       ELSE iptables' = [NetworkStep(c, [c EXCEPT !.pc = "check_rule", !.created = TRUE,
                                                  !.todo = rules_to_add(unwrap(c.subnet))])
                            EXCEPT !.chain = Some(<<>>)]

\* where the call goes on after a rule of the loop
after_rule(c) ==
    IF Len(c.todo) > 1 THEN [c EXCEPT !.pc = "check_rule", !.todo = Tail(c.todo)]
    ELSE [c EXCEPT !.pc = "check_jump", !.todo = <<>>]

\* add_iptables_rule: iptables -C chain -s source -d dest -j target
NetworkCheckRule(c) ==
    /\ c.pc = "check_rule"
    /\ iptables' = NetworkStep(c,
          IF seq_has(unwrap(iptables.chain), Head(c.todo)) THEN after_rule(c)
          ELSE [c EXCEPT !.pc = "append_rule"])

\* add_iptables_rule: iptables -A chain -s source -d dest -j target
NetworkAppendRule(c) ==
    /\ c.pc = "append_rule"
    /\ iptables' = [NetworkStep(c, after_rule(c))
                       EXCEPT !.chain = Some(Append(unwrap(iptables.chain), Head(c.todo)))]

\* ensure_iptables_rules: iptables -C FORWARD -s source_subnet -j chain
NetworkCheckJump(c) ==
    /\ c.pc = "check_jump"
    /\ iptables' = NetworkStep(c,
          IF seq_has(iptables.forward, JumpRule(unwrap(c.subnet))) THEN Returned(c, "Ok")
          ELSE [c EXCEPT !.pc = "insert_jump"])

\* ensure_iptables_rules: iptables -I FORWARD 1 -s source_subnet -j chain
NetworkInsertJump(c) ==
    /\ c.pc = "insert_jump"
    /\ iptables' = [NetworkStep(c, Returned(c, "Ok"))
                       EXCEPT !.forward = <<JumpRule(unwrap(c.subnet))>> \o iptables.forward]

(***************************************************************************)
(* Specifications.                                                         *)
(***************************************************************************)
mainVars == <<authorized_orgs, workers, pr_comments, job_context, deployment_status,
              gh_comments, tasks, worker_jobs, status_tasks>>

workerVars == <<sites_dir, caddy_routes, worker_tasks, status_sent, worker_run>>

poolVars == <<pool, monitor, calc, tunnel, iptables>>

vars == <<auth, gate, http, authorized_orgs, workers, pr_comments, job_context,
          deployment_status, gh_comments, tasks, worker_jobs, status_tasks, sites_dir,
          caddy_routes, worker_tasks, status_sent, worker_run, pool, monitor, calc, tunnel, iptables>>

MainIdle ==
    /\ authorized_orgs = {}
    /\ workers = {}
    /\ pr_comments = {}
    /\ job_context = {}
    /\ deployment_status = {}
    /\ gh_comments = <<>>
    /\ tasks = {}
    /\ worker_jobs = {}
    /\ status_tasks = {}

CalcIdle == [op |-> "idle"]

\* no Cloudflare call and no firewall call
ExtIdle == tunnel = TunnelIdle /\ iptables = IptablesIdle

OthersIdle == PoolIdle /\ calc = CalcIdle /\ ExtIdle

\* what the specifications of one component leave alone
centralIdle == UNCHANGED mainVars /\ UNCHANGED workerVars /\ UNCHANGED poolVars
workerIdle == UNCHANGED <<auth, gate, http>> /\ UNCHANGED workerVars /\ UNCHANGED poolVars

NextAuth ==
    \/ AuthSign /\ UNCHANGED <<gate, http>> /\ centralIdle
    \/ AuthChange /\ UNCHANGED <<gate, http>> /\ centralIdle
    \/ AuthVerify /\ UNCHANGED <<gate, http>> /\ centralIdle

InitAuth == AuthInit /\ gate = GateIdle /\ http = HttpIdle /\ MainIdle /\ WorkerIdle /\ OthersIdle

SpecAuth == InitAuth /\ [][NextAuth]_vars

NextGate ==
    \/ GateCheckZone /\ UNCHANGED <<auth, http>> /\ centralIdle
    \/ GateCheckDomain /\ UNCHANGED <<auth, http>> /\ centralIdle

InitGate == GateInit /\ auth = AuthIdle /\ http = HttpIdle /\ MainIdle /\ WorkerIdle /\ OthersIdle

SpecGate == InitGate /\ [][NextGate]_vars

NextHttp ==
    \/ HttpWebhook /\ UNCHANGED <<auth, gate>> /\ centralIdle
    \/ HttpStatus /\ UNCHANGED <<auth, gate>> /\ centralIdle
    \/ HttpHeartbeat /\ UNCHANGED <<auth, gate>> /\ centralIdle
    \/ HttpBuild /\ UNCHANGED <<auth, gate>> /\ centralIdle
    \/ HttpCleanup /\ UNCHANGED <<auth, gate>> /\ centralIdle

InitHttp == HttpInit /\ auth = AuthIdle /\ gate = GateIdle /\ MainIdle /\ WorkerIdle /\ OthersIdle

SpecHttp == InitHttp /\ [][NextHttp]_vars

Next ==
    \/ AdminUpsertOrg /\ workerIdle
    \/ AdminDeleteOrg /\ workerIdle
    \/ HandleWebhook /\ workerIdle
    \/ \E t \in tasks : TaskStart(t) /\ workerIdle
    \/ \E t \in tasks : TaskGetAuthorizedOrg(t) /\ workerIdle
    \/ \E t \in tasks : TaskGetWorker(t) /\ workerIdle
    \/ \E t \in tasks : TaskGetPrComment(t) /\ workerIdle
    \/ \E t \in tasks : TaskUpdateComment(t) /\ workerIdle
    \/ \E t \in tasks : TaskCreatePrComment(t) /\ workerIdle
    \/ \E t \in tasks : TaskUpsertPrComment(t) /\ workerIdle
    \/ \E t \in tasks : TaskDispatchBuildJob(t) /\ workerIdle
    \/ \E t \in tasks : TaskStoreJobContext(t) /\ workerIdle
    \/ \E t \in tasks : TaskDispatchCleanupJob(t) /\ workerIdle
    \/ \E t \in tasks : TaskDeletePrComment(t) /\ workerIdle
    \/ \E j \in worker_jobs : WorkerSendBuilding(j) /\ workerIdle
    \/ \E j \in worker_jobs : WorkerRunBuildPipeline(j) /\ workerIdle
    \/ \E j \in worker_jobs : WorkerRunCleanup(j) /\ workerIdle
    \/ \E j \in worker_jobs : WorkerSendResult(j) /\ workerIdle
    \/ \E s \in status_tasks : StatusGetDeployment(s) /\ workerIdle
    \/ \E s \in status_tasks : StatusUpdateDeployment(s) /\ workerIdle
    \/ \E s \in status_tasks : StatusUpdateComment(s) /\ workerIdle

Init == MainInit /\ auth = AuthIdle /\ gate = GateIdle /\ http = HttpIdle /\ WorkerIdle /\ OthersIdle

Spec == Init /\ [][Next]_vars

NextStatus ==
    \/ HandleStatus /\ workerIdle
    \/ \E s \in status_tasks : StatusGetDeployment(s) /\ workerIdle
    \/ \E s \in status_tasks : StatusUpdateDeployment(s) /\ workerIdle
    \/ \E s \in status_tasks : StatusUpdateComment(s) /\ workerIdle

InitStatus ==
    StatusInit /\ auth = AuthIdle /\ gate = GateIdle /\ http = HttpIdle /\ WorkerIdle /\ OthersIdle

SpecStatus == InitStatus /\ [][NextStatus]_vars

InitSharedComment ==
    SharedCommentInit /\ auth = AuthIdle /\ gate = GateIdle /\ http = HttpIdle /\ WorkerIdle /\ OthersIdle

SpecSharedComment == InitSharedComment /\ [][NextStatus]_vars


hostIdle == UNCHANGED <<auth, gate, http>> /\ UNCHANGED mainVars /\ UNCHANGED poolVars

NextWorker ==
    \/ AcceptJob /\ hostIdle
    \/ \E t \in worker_tasks : BuildSendBuilding(t) /\ hostIdle
    \/ \E t \in worker_tasks : BuildPrepare(t) /\ hostIdle
    \/ \E t \in worker_tasks : BuildRemoveOldDeployment(t) /\ hostIdle
    \/ \E t \in worker_tasks : BuildCopy(t) /\ hostIdle
    \/ \E t \in worker_tasks : TaskRemoveCaddyRoute(t) /\ hostIdle
    \/ \E t \in worker_tasks : BuildFindCatchAllIndex(t) /\ hostIdle
    \/ \E t \in worker_tasks : BuildAddCaddyRoute(t) /\ hostIdle
    \/ \E t \in worker_tasks : BuildEnsureRoute(t) /\ hostIdle
    \/ \E t \in worker_tasks : CleanupRemoveSiteDir(t) /\ hostIdle
    \/ \E t \in worker_tasks : TaskSendResult(t) /\ hostIdle
    \/ WorkerStops /\ hostIdle

InitWorker ==
    WorkerInit /\ auth = AuthIdle /\ gate = GateIdle /\ http = HttpIdle /\ MainIdle /\ OthersIdle

SpecWorker == InitWorker /\ [][NextWorker]_vars

InitDeployed ==
    DeployedInit /\ auth = AuthIdle /\ gate = GateIdle /\ http = HttpIdle /\ MainIdle /\ OthersIdle

SpecDeployed == InitDeployed /\ [][NextWorker]_vars

NextBoot ==
    \/ RunWaitForCaddyReady /\ hostIdle
    \/ RunReadDir /\ hostIdle
    \/ RunNextEntry /\ hostIdle
    \/ RunBind /\ hostIdle

InitBoot ==
    BootInit /\ auth = AuthIdle /\ gate = GateIdle /\ http = HttpIdle /\ MainIdle /\ OthersIdle

SpecBoot == InitBoot /\ [][NextBoot]_vars

\* the tables other than workers, and everything outside Central's store
poolIdle ==
    /\ UNCHANGED <<auth, gate, http, calc, tunnel, iptables>>
    /\ UNCHANGED <<authorized_orgs, pr_comments, job_context, deployment_status, gh_comments,
                   tasks, worker_jobs, status_tasks>>
    /\ UNCHANGED workerVars

NextPool ==
    \/ PoolTick /\ poolIdle
    \/ CentralStart /\ poolIdle
    \/ CentralStops /\ poolIdle
    \/ PoolHeartbeat /\ poolIdle
    \/ PoolGetWorker /\ poolIdle
    \/ MonitorNextWorker /\ poolIdle
    \/ MonitorInitialProbe /\ poolIdle
    \/ MonitorSleep /\ poolIdle
    \/ MonitorTick /\ poolIdle
    \/ MonitorCheckWorker /\ poolIdle

InitPool ==
    /\ PoolInit /\ calc = CalcIdle /\ ExtIdle
    /\ auth = AuthIdle /\ gate = GateIdle /\ http = HttpIdle /\ WorkerIdle
    /\ authorized_orgs = {} /\ pr_comments = {} /\ job_context = {} /\ deployment_status = {}
    /\ gh_comments = <<>> /\ tasks = {} /\ worker_jobs = {} /\ status_tasks = {}

SpecPool == InitPool /\ [][NextPool]_vars

\* the steps of the monitor task
MonitorNext ==
    \/ MonitorNextWorker /\ poolIdle
    \/ MonitorInitialProbe /\ poolIdle
    \/ MonitorSleep /\ poolIdle
    \/ MonitorTick /\ poolIdle
    \/ MonitorCheckWorker /\ poolIdle

NextMonitor ==
    \/ PoolTick /\ poolIdle
    \/ MonitorNext

InitMonitor ==
    /\ MonitorInit /\ calc = CalcIdle /\ ExtIdle
    /\ auth = AuthIdle /\ gate = GateIdle /\ http = HttpIdle /\ WorkerIdle
    /\ authorized_orgs = {} /\ pr_comments = {} /\ job_context = {} /\ deployment_status = {}
    /\ gh_comments = <<>> /\ tasks = {} /\ worker_jobs = {} /\ status_tasks = {}

\* the monitor is a spawned task of a running process: the runtime keeps polling it,
\* its sleeps and ticks end and its requests end within request_timeout
SpecMonitor == InitMonitor /\ [][NextMonitor]_vars /\ WF_vars(MonitorNext)

\* everything but table job_context and the harness
calcIdle ==
    /\ UNCHANGED <<auth, gate, http, pool, monitor, tunnel, iptables>>
    /\ UNCHANGED <<authorized_orgs, workers, pr_comments, deployment_status, gh_comments,
                   tasks, worker_jobs, status_tasks>>
    /\ UNCHANGED workerVars

NextStores ==
    \/ StoreJobContext /\ calcIdle

InitStores ==
    /\ StoresInit /\ PoolIdle /\ ExtIdle
    /\ auth = AuthIdle /\ gate = GateIdle /\ http = HttpIdle /\ WorkerIdle
    /\ authorized_orgs = {} /\ workers = {} /\ pr_comments = {} /\ deployment_status = {}
    /\ gh_comments = <<>> /\ tasks = {} /\ worker_jobs = {} /\ status_tasks = {}

SpecStores == InitStores /\ [][NextStores]_vars

\* everything but the harness
harnessIdle == calcIdle /\ UNCHANGED job_context

NextClone ==
    \/ CloneInsertToken /\ harnessIdle
    \/ CloneGitClone /\ harnessIdle
    \/ CloneGitFetch /\ harnessIdle
    \/ CloneGitCheckout /\ harnessIdle
    \/ CloneReportFailure /\ harnessIdle

\* every table empty and every process idle
NothingElse ==
    /\ PoolIdle /\ ExtIdle /\ auth = AuthIdle /\ gate = GateIdle /\ http = HttpIdle /\ WorkerIdle
    /\ authorized_orgs = {} /\ workers = {} /\ pr_comments = {} /\ job_context = {}
    /\ deployment_status = {} /\ gh_comments = <<>> /\ tasks = {} /\ worker_jobs = {}
    /\ status_tasks = {}

InitClone == CloneInit /\ NothingElse

SpecClone == InitClone /\ [][NextClone]_vars

NextResolve ==
    \/ ResolveDomain /\ harnessIdle
    \/ ResolvePrDomain /\ harnessIdle

InitResolve == ResolveInit /\ NothingElse

SpecResolve == InitResolve /\ [][NextResolve]_vars

NextMerge ==
    \/ MergeOnce /\ harnessIdle
    \/ MergeAgain /\ harnessIdle

InitMerge == MergeInit /\ NothingElse

SpecMerge == InitMerge /\ [][NextMerge]_vars

NextFetch ==
    \/ FetchOrgConfig /\ harnessIdle
    \/ FetchRepoConfig /\ harnessIdle
    \/ FetchMatch /\ harnessIdle

InitFetch == FetchInit /\ NothingElse

SpecFetch == InitFetch /\ [][NextFetch]_vars

\* everything but the tunnel
tunnelIdle ==
    /\ UNCHANGED <<auth, gate, http, pool, monitor, calc, iptables>>
    /\ UNCHANGED mainVars
    /\ UNCHANGED workerVars

NextTunnel ==
    \/ EnsureRouteStart /\ tunnelIdle
    \/ \E c \in tunnel.calls : EnsureGetTunnelConfig(c) /\ tunnelIdle
    \/ \E c \in tunnel.calls : EnsureUpdateTunnelConfig(c) /\ tunnelIdle
    \/ \E c \in tunnel.calls : EnsureDnsRecord(c) /\ tunnelIdle

InitTunnel ==
    /\ TunnelInit /\ PoolIdle /\ calc = CalcIdle /\ iptables = IptablesIdle
    /\ auth = AuthIdle /\ gate = GateIdle /\ http = HttpIdle /\ MainIdle /\ WorkerIdle

SpecTunnel == InitTunnel /\ [][NextTunnel]_vars

\* everything but the firewall and the networks
iptablesIdle ==
    /\ UNCHANGED <<auth, gate, http, pool, monitor, calc, tunnel>>
    /\ UNCHANGED mainVars
    /\ UNCHANGED workerVars

NextNetwork ==
    \/ EnsureBuildNetworkStart /\ iptablesIdle
    \/ \E c \in iptables.calls : NetworkInspect(c) /\ iptablesIdle
    \/ \E c \in iptables.calls : NetworkListNetworks(c) /\ iptablesIdle
    \/ \E c \in iptables.calls : NetworkCreate(c) /\ iptablesIdle
    \/ \E c \in iptables.calls : NetworkCheckChain(c) /\ iptablesIdle
    \/ \E c \in iptables.calls : NetworkNewChain(c) /\ iptablesIdle
    \/ \E c \in iptables.calls : NetworkCheckRule(c) /\ iptablesIdle
    \/ \E c \in iptables.calls : NetworkAppendRule(c) /\ iptablesIdle
    \/ \E c \in iptables.calls : NetworkCheckJump(c) /\ iptablesIdle
    \/ \E c \in iptables.calls : NetworkInsertJump(c) /\ iptablesIdle

InitNetwork ==
    /\ IptablesInit /\ PoolIdle /\ calc = CalcIdle /\ tunnel = TunnelIdle
    /\ auth = AuthIdle /\ gate = GateIdle /\ http = HttpIdle /\ MainIdle /\ WorkerIdle

SpecNetwork == InitNetwork /\ [][NextNetwork]_vars

(***************************************************************************)
(* C2: verify_signature answers true exactly when the signature is the one *)
(* computed from (secret, timestamp, body), now - timestamp <= 300 and     *)
(* timestamp <= now + 60; an unchanged signed request verifies iff the     *)
(* clock is inside that window, and a request changed in its body, secret, *)
(* signature or timestamp never verifies.                                  *)
(***************************************************************************)
C2_VerifyWindow ==
    auth.phase = "verified" =>
        /\ auth.result <=>
              /\ auth.signature = compute_signature(auth.secret, auth.body, auth.timestamp)
              /\ auth.now - auth.timestamp <= 300
              /\ auth.timestamp <= auth.now + 60
        /\ auth.changed = "nothing" =>
              (auth.result <=> (auth.now - SignTime <= 300 /\ SignTime - auth.now <= 60))
        /\ auth.changed # "nothing" => ~auth.result

C2_Witness ==
    /\ auth.phase = "verified"
    /\ auth.changed = "nothing"
    /\ auth.now - auth.timestamp = 300
    /\ auth.result

(***************************************************************************)
(* C6: can_use_zone holds iff some authorized zone equals the zone         *)
(* ignoring case; can_use_domain holds iff some pattern equals the host    *)
(* ignoring case or is *.S with lower(host) = S or lower(host) = X.S for a *)
(* non-empty X (so *.x never matches notx).                                *)
(***************************************************************************)
HostAllowedBy(pattern, host) ==
    LET h == to_lowercase(host)
    IN  \/ to_lowercase(pattern) = h
        \/ /\ Len(pattern) >= 2
           /\ pattern[1] = "*"
           /\ pattern[2] = "."
           /\ LET S == to_lowercase(SubSeq(pattern, 3, Len(pattern)))
              IN  \/ h = S
                  \/ \E k \in 1..Len(h) : SubSeq(h, k + 1, Len(h)) = <<".">> \o S

C6_GateMatches ==
    /\ gate.op = "zone" =>
         (gate.result <=>
            \E i \in 1..Len(gate.list) : to_lowercase(gate.list[i]) = to_lowercase(gate.arg))
    /\ gate.op = "domain" =>
         (gate.result <=> \E i \in 1..Len(gate.list) : HostAllowedBy(gate.list[i], gate.arg))

C6_Witness ==
    /\ gate.op = "domain"
    /\ gate.list = <<<<"*", ".", "a">>>>
    /\ gate.arg = <<"B", ".", "a">>
    /\ gate.result

(***************************************************************************)
(* C3: on every signed endpoint a request whose signature header is        *)
(* missing or does not match, or (mutual shape) whose timestamp header is  *)
(* missing, not a decimal number, older than 300 s or more than 60 s       *)
(* ahead, is answered 401, whatever its other headers and its body are.    *)
(***************************************************************************)
SignatureFails(h) ==
    \/ is_none(h.req.signature)
    \/ /\ h.endpoint = "/webhook/github"
       /\ unwrap(h.req.signature)
            # [scheme |-> "sha256=", key |-> github_webhook_secret, msg |-> <<h.req.body>>]
    \/ /\ h.endpoint \in MutualEndpoints
       /\ is_some(h.req.timestamp)
       /\ is_some(parse_u64(unwrap(h.req.timestamp)))
       /\ unwrap(h.req.signature)
            # compute_signature(worker_shared_secret, h.req.body,
                                unwrap(parse_u64(unwrap(h.req.timestamp))))

TimestampFails(h) ==
    /\ h.endpoint \in MutualEndpoints
    /\ \/ is_none(h.req.timestamp)
       \/ LET text == unwrap(h.req.timestamp)
          IN  \/ Len(text) = 0
              \/ \E i \in 1..Len(text) : ~is_digit(text[i])
              \/ h.now - digits_value(text) > 300
              \/ digits_value(text) > h.now + 60

C3_Unauthenticated401 ==
    http.endpoint \in Endpoints =>
        ((SignatureFails(http) \/ TimestampFails(http)) => http.code = 401)

C3_MutualEndpoints401 ==
    http.endpoint \in MutualEndpoints =>
        ((SignatureFails(http) \/ TimestampFails(http)) => http.code = 401)

(***************************************************************************)
(* C1: a task handling a push or an opened / synchronize / reopened event  *)
(* writes a PR comment, records its id, dispatches a BuildJob or stores a  *)
(* JobContext only if the gates passed when it queried them: the merged    *)
(* config is enabled and names a zone, the store held an enabled row for   *)
(* the organization that allows the zone and the resolved host name (main  *)
(* for push, PR for PR), and an enabled worker existed for the zone.  A    *)
(* task that found the organization absent or disabled does none of it.    *)
(***************************************************************************)
SideEffectCalls ==
    {"update_comment", "create_pr_comment", "upsert_pr_comment", "dispatch_build_job",
     "store_job_context"}

ResolvedHost(t) ==
    IF t.event.kind = "PullRequest"
    THEN resolve_pr_domain(unwrap(t.deploy_config), repo_name(t), pr_number(t))
    ELSE resolve_domain(unwrap(t.deploy_config), repo_name(t))

RowAllows(r, zone, host) ==
    /\ \E i \in 1..Len(r.zones) : to_lowercase(r.zones[i]) = to_lowercase(zone)
    /\ \E i \in 1..Len(r.domain_patterns) : HostAllowedBy(r.domain_patterns[i], host)

GatesPassed(t) ==
    /\ is_some(t.deploy_config)
    /\ unwrap(t.deploy_config).enabled
    /\ is_some(unwrap(t.deploy_config).zone)
    /\ is_some(ResolvedHost(t))
    /\ \E r \in t.enabled_rows : RowAllows(r, zone_of(t), unwrap(ResolvedHost(t)))
    /\ t.worker_exists
    /\ (is_some(t.job) => unwrap(t.job).domain = unwrap(ResolvedHost(t)))

C1_GatedSideEffects ==
    [][\A t \in tasks \ tasks' : t.pc \in SideEffectCalls => GatesPassed(t)]_vars

C1_Witness ==
    \E t \in tasks :
        /\ t.outcome = "completed"
        /\ ~t.closed
        /\ is_some(t.comment_id)
        /\ \E r \in job_context : r.job_id = t.id /\ r.github_comment_id = t.comment_id
        /\ \E j \in worker_jobs : j.job.job_id = t.id

(***************************************************************************)
(* C4: at /webhook/github, /api/status, /build and /cleanup a request that *)
(* is answered 401 or 400 hands nothing to tokio::spawn, and spawning is   *)
(* the only way these handlers act on anything.                            *)
(***************************************************************************)
C4_RejectedSpawnsNothing ==
    http.endpoint \in {"/webhook/github", "/api/status", "/build", "/cleanup"} =>
        (http.code \in {400, 401} => ~http.spawned)

C4_Witness ==
    /\ http.endpoint = "/webhook/github"
    /\ http.code = 401
    /\ is_some(http.req.signature)
    /\ http.req.event = Some("pull_request")
    /\ http.req.body.shape = "PullRequestEvent"
    /\ ~http.spawned

(***************************************************************************)
(* C5: a task handling a closed event dispatches a CleanupJob only if the  *)
(* store held an enabled row for the organization that allows the config's *)
(* zone and the resolved PR host name.                                     *)
(***************************************************************************)
C5_CleanupGated ==
    [][\A t \in tasks \ tasks' :
          t.pc = "dispatch_cleanup_job" =>
              /\ is_some(ResolvedHost(t))
              /\ \E r \in t.enabled_rows : RowAllows(r, zone_of(t), unwrap(ResolvedHost(t)))]_vars

(***************************************************************************)
(* C7: as long as no closed event was delivered and no comment write       *)
(* failed, a PR has at most one deployment comment on GitHub and at most   *)
(* one pr_comments row under the case-insensitive lookup, however the      *)
(* tasks of its events interleave.                                         *)
(***************************************************************************)
ClosedDelivered ==
    \E t \in tasks :
        \/ t.closed
        \/ t.event.kind = "PullRequest" /\ t.event.payload.action = "closed"

C7_OneCommentPerPr ==
    (~ClosedDelivered /\ \A t \in tasks : t.outcome # "comment error") =>
        \A p \in 1..MaxPr :
            /\ Cardinality({i \in 1..Len(gh_comments) : gh_comments[i].issue = p}) <= 1
            /\ Cardinality({r \in pr_comments :
                               /\ to_lowercase(r.github_org) = to_lowercase(OrgLogin)
                               /\ to_lowercase(r.github_repo) = to_lowercase(RepoName)
                               /\ r.pr_number = p}) <= 1

(***************************************************************************)
(* C8: Central never ends the processing of a building, success or failed  *)
(* update as an unknown job when the update is for a BuildJob it           *)
(* dispatched and whose context store did not fail.                        *)
(***************************************************************************)
C8_ContextBeforeStatus ==
    \A s \in status_tasks :
        (/\ s.update.status \in {"building", "success", "failed"}
         /\ \E j \in worker_jobs : j.job.shape = "BuildJob" /\ j.job.job_id = s.update.job_id
         /\ \A t \in tasks : t.id = s.update.job_id => t.outcome # "store error")
        => s.outcome # "unknown job"

(***************************************************************************)
(* C9: once everything has come to rest, the comment of a PR event whose   *)
(* dispatch or context store failed after the comment was written shows    *)
(* the failure body.                                                       *)
(***************************************************************************)
AllAtRest ==
    /\ \A t \in tasks : t.pc = "done"
    /\ \A j \in worker_jobs : j.pc = "done"
    /\ \A s \in status_tasks : s.pc = "done"

C9_FailureShown ==
    AllAtRest =>
        \A t \in tasks :
            (t.outcome \in {"dispatch error", "store error"} /\ is_some(t.comment_id)) =>
                gh_comments[unwrap(t.comment_id)].body.kind = "Deployment failed"

(***************************************************************************)
(* C10: every step of process_status_update leaves the job contexts and    *)
(* the pr_comments rows alone; a verified update is answered 200 whatever  *)
(* its job id; an update for an unknown job ends at the lookup and writes  *)
(* nothing; a comment changes only through a success or failed update for  *)
(* a job whose context tracks that comment; and the update_comment step,   *)
(* when no call fails, writes the success body (deployed_url or "(URL not  *)
(* available)") or the failure body (error_message or "Unknown error") for *)
(* success / failed and writes nothing for pending / building / cleaned.   *)
(***************************************************************************)
ExpectedBody(update, context) ==
    [kind |-> IF update.status = "success" THEN "Deployment successful"
              ELSE "Deployment failed",
     commit |-> SubSeq(context.commit_sha, 1, 7),
     detail |-> IF update.status = "success"
                THEN (IF update.deployed_url = None THEN <<"(", "U", "R", "L", " ", "n", "o", "t", " ", "a", "v", "a", "i", "l", "a", "b", "l", "e", ")">>
                      ELSE update.deployed_url[1])
                ELSE (IF update.error_message = None THEN <<"U", "n", "k", "n", "o", "w", "n", " ", "e", "r", "r", "o", "r">>
                      ELSE update.error_message[1])]

TrackedUpdate(s, context) ==
    /\ context \in job_context
    /\ context.job_id = s.update.job_id
    /\ context.github_comment_id # None
    /\ s.update.status \in {"success", "failed"}

TerminalStatuses == {"success", "failed"}

IdenticalTerminal(update) ==
    /\ update.status \in TerminalStatuses
    /\ status_tasks # {}
    /\ \A s \in status_tasks : s.update = update

CommentsAtStart ==
    <<[org |-> OrgLogin, repo |-> RepoName, issue |-> 1,
       body |-> [kind |-> "Deployment in progress", commit |-> SubSeq(CommitSha(1), 1, 7),
                 detail |-> <<>>]]>>

StatusWritten(update) ==
    {[id |-> update.job_id, status |-> update.status, deployed_url |-> update.deployed_url,
      error_message |-> update.error_message]}

CommentsWritten(update, context) ==
    IF context.github_comment_id = None THEN CommentsAtStart
    ELSE [CommentsAtStart EXCEPT ![context.github_comment_id[1]].body =
                                     ExpectedBody(update, context)]

\* the states <<deployment_status, gh_comments>> of one delivery of the update
OnceOutcomes(update) ==
    {<<{}, CommentsAtStart>>}
    \cup UNION {{<<StatusWritten(update), CommentsAtStart>>,
                 <<StatusWritten(update), CommentsWritten(update, context)>>}
                : context \in {c \in job_context : c.job_id = update.job_id}}

DispatchCalls == {"dispatch_build_job", "dispatch_cleanup_job"}

After(t) == CHOOSE t2 \in tasks' : t2.id = t.id

C13_AtMostOnce ==
    [][/\ \A t \in tasks' : t.posts <= 1
       /\ \A t \in tasks' :
             t.outcome = "dispatch error" =>
                 \A context \in job_context' : context.job_id # t.id
       /\ \A t \in tasks \ tasks' :
             /\ t.pc \in DispatchCalls =>
                   /\ After(t).posts = t.posts + 1
                   /\ \/ After(t).pc = "done" /\ After(t).outcome = "dispatch error"
                      \/ /\ After(t).pc \in {"store_job_context", "delete_pr_comment"}
                         /\ \E j \in worker_jobs' \ worker_jobs : j.job = unwrap(t.job)
             /\ t.pc \notin DispatchCalls =>
                   /\ After(t).posts = t.posts
                   /\ UNCHANGED worker_jobs
                   /\ (t.posts > 0 => After(t).pc \notin DispatchCalls)]_vars

C13_Witness ==
    /\ \E t \in tasks : t.outcome = "dispatch error" /\ t.posts = 1
    /\ \E t \in tasks : t.outcome = "completed" /\ t.posts = 1 /\ ~t.closed

(***************************************************************************)
(* C14: on the opened / synchronize / reopened path, which a task enters   *)
(* only with the gates passed, the comment step writes the 'Deployment in  *)
(* progress' body for the head commit into a comment of that PR, and a     *)
(* created comment's id is persisted under (org, repo, pr).  The dispatch  *)
(* step that succeeds hands the Worker exactly one BuildJob, whose job id  *)
(* no other task, job or JobContext carries, with domain = the resolved PR *)
(* host name, pr_number = the PR's number and no subdomain.  After it the  *)
(* task ends leaving a JobContext for that job id that holds the           *)
(* installation id, org, repo, head commit sha and that comment's id.      *)
(***************************************************************************)
OnPrBuildPath(t) ==
    /\ t.event.kind = "PullRequest"
    /\ t.pc \in {"get_pr_comment", "update_comment", "create_pr_comment",
                 "upsert_pr_comment", "dispatch_build_job", "store_job_context"}

ShowsBuilding(comment, t) ==
    /\ comment.issue = t.event.payload.number
    /\ comment.body = [kind |-> "Deployment in progress",
                       commit |-> SubSeq(t.event.payload.head_sha, 1, 7), detail |-> <<>>]

ExpectedBuildJob(t) ==
    [shape |-> "BuildJob", job_id |-> t.id, commit_sha |-> t.event.payload.head_sha,
     pr_number |-> <<t.event.payload.number>>, domain |-> ResolvedHost(t)[1],
     site_type |-> "auto", repo_name |-> t.event.payload.repo,
     org_name |-> t.event.payload.org, subdomain |-> <<>>]

ExpectedContext(t) ==
    [job_id |-> t.id, installation_id |-> t.event.payload.installation[1],
     github_org |-> t.event.payload.org, github_repo |-> t.event.payload.repo,
     github_comment_id |-> t.comment_id, commit_sha |-> t.event.payload.head_sha]

C14_PrBuildDispatched ==
    [][\A t \in tasks \ tasks' :
          OnPrBuildPath(t) =>
             /\ GatesPassed(t)
             /\ (t.pc \in {"update_comment", "create_pr_comment"} /\ After(t).pc # "done") =>
                   /\ After(t).comment_id # None
                   /\ ShowsBuilding(gh_comments'[After(t).comment_id[1]], t)
             /\ (t.pc = "upsert_pr_comment" /\ After(t).pc # "done") =>
                   [github_org |-> t.event.payload.org, github_repo |-> t.event.payload.repo,
                    pr_number |-> t.event.payload.number, comment_id |-> t.comment_id[1]]
                       \in pr_comments'
             /\ (t.pc = "dispatch_build_job" /\ After(t).pc # "done") =>
                   /\ After(t).posts = 1
                   /\ worker_jobs' \ worker_jobs =
                         {[job |-> ExpectedBuildJob(t), pc |-> "send_building",
                           result |-> <<>>]}
                   /\ \A j \in worker_jobs : j.job.job_id # t.id
                   /\ \A context \in job_context : context.job_id # t.id
                   /\ \A t2 \in tasks : t2.id = t.id => t2 = t
             /\ t.pc = "store_job_context" =>
                   /\ After(t).pc = "done"
                   /\ t.comment_id # None
                   /\ ExpectedContext(t) \in job_context'
                   /\ \A context \in job_context' :
                         context.job_id = t.id => context = ExpectedContext(t)]_vars

(***************************************************************************)
(* C15: a task handling a closed event, merged or not, whose dispatch      *)
(* succeeds has handed the Worker one CleanupJob with site_id =            *)
(* lower(org)-lower(repo)-pr-N and domain = the resolved PR host name or   *)
(* none; after its next and last step no row of pr_comments matches (org,  *)
(* repo, pr) with the case of org and repo ignored, and the task has ended *)
(* without an error.                                                       *)
(***************************************************************************)
OnClosedPath(t) ==
    /\ t.event.kind = "PullRequest"
    /\ t.event.payload.action = "closed"
    /\ t.pc \in {"dispatch_cleanup_job", "delete_pr_comment"}

ExpectedCleanupJob(t) ==
    [shape |-> "CleanupJob", job_id |-> t.id,
     site_id |-> to_lowercase(t.event.payload.org) \o <<"-">> \o to_lowercase(t.event.payload.repo)
                 \o <<"-", "p", "r", "-">> \o to_string(t.event.payload.number),
     domain |-> resolve_pr_domain(unwrap(t.deploy_config), t.event.payload.repo,
                                  t.event.payload.number)]

RowsOfPr(table, t) ==
    {r \in table : /\ to_lowercase(r.github_org) = to_lowercase(t.event.payload.org)
                   /\ to_lowercase(r.github_repo) = to_lowercase(t.event.payload.repo)
                   /\ r.pr_number = t.event.payload.number}

CleanupDispatched(t) ==
    (t.pc = "dispatch_cleanup_job" /\ After(t).pc # "done") =>
        /\ After(t).pc = "delete_pr_comment"
        /\ After(t).posts = 1
        /\ worker_jobs' \ worker_jobs =
              {[job |-> ExpectedCleanupJob(t), pc |-> "run_cleanup", result |-> <<>>]}

C15_ClosedCleansUp ==
    [][\A t \in tasks \ tasks' :
          OnClosedPath(t) =>
             /\ CleanupDispatched(t)
             /\ t.pc = "delete_pr_comment" =>
                   /\ After(t).outcome = "completed"
                   /\ RowsOfPr(pr_comments', t) = {}]_vars

\* as amended: when the delete succeeds no row of the PR remains and no other row
\* is touched; when it fails, which the task logs, the table is as it was; the task
\* ends without an error in both cases
C15_ClosedCleansUpBestEffort ==
    [][\A t \in tasks \ tasks' :
          OnClosedPath(t) =>
             /\ CleanupDispatched(t)
             /\ t.pc = "delete_pr_comment" =>
                   /\ After(t).outcome = "completed"
                   /\ IF After(t).warned THEN UNCHANGED pr_comments
                      ELSE /\ RowsOfPr(pr_comments', t) = {}
                           /\ pr_comments' = pr_comments \ RowsOfPr(pr_comments, t)]_vars

C15_Witness ==
    /\ \E t \in tasks : t.closed /\ t.outcome = "completed" /\ t.posts = 1
    /\ \E t \in tasks : ~t.closed /\ t.comment_id # None
    /\ \E j \in worker_jobs : j.job.shape = "CleanupJob" /\ j.job.domain # None
    /\ pr_comments = {}

(***************************************************************************)
(* Claims about the Worker.                                                *)
(***************************************************************************)
\* the statuses of the updates the Worker sent for a job, in the order sent
StatusesSent(id) == [i \in 1..Len(status_sent[id]) |-> status_sent[id][i].update.status]

BuildSequences == {<<"building", "success">>, <<"building", "failed">>}
CleanupSequences == {<<"cleaned">>, <<"failed">>}

IsPrefixOf(s, full) == Len(s) <= Len(full) /\ s = SubSeq(full, 1, Len(s))

\* C12 as stated: for every BuildJob the Worker accepted it sends 'building' first
\* and then exactly one terminal update, success or failed; for every CleanupJob it
\* accepted exactly one update, cleaned or failed; an update that cannot be
\* delivered is not sent again.  Read on a finite run: a job accepted for which no
\* task is running any more has had exactly these updates sent.
C12_ExactlyOneTerminal ==
    \A id \in DOMAIN status_sent :
        (~\E t \in worker_tasks : t.id = id /\ t.pc # "done")
           => StatusesSent(id) \in BuildSequences \cup CleanupSequences

\* C12 as amended: the updates sent for an accepted job are at every moment the
\* beginning of 'building' then one of success and failed (BuildJob) or of one of
\* cleaned and failed (CleanupJob), each sent once whether delivered or not; a task
\* that has not sent its result yet has sent 'building' alone (BuildJob, past its
\* first step) or nothing, and a task that ran to its end has sent all of them.
C12_AtMostOneTerminal ==
    /\ \A id \in DOMAIN status_sent :
          \E full \in BuildSequences \cup CleanupSequences : IsPrefixOf(StatusesSent(id), full)
    /\ \A t \in worker_tasks :
          /\ \A i \in 1..Len(status_sent[t.id]) : status_sent[t.id][i].update.job_id = t.id
          /\ t.job.shape = "BuildJob" =>
                CASE t.pc = "send_building" -> StatusesSent(t.id) = <<>>
                  [] t.pc = "done" ->
                        /\ StatusesSent(t.id) \in BuildSequences
                        /\ StatusesSent(t.id)[2] = "success" <=> unwrap(t.result).ok
                  [] OTHER -> StatusesSent(t.id) = <<"building">>
          /\ t.job.shape = "CleanupJob" =>
                IF t.pc = "done"
                THEN /\ StatusesSent(t.id) \in CleanupSequences
                     /\ StatusesSent(t.id)[1] = "cleaned" <=> unwrap(t.result).ok
                ELSE StatusesSent(t.id) = <<>>

\* a BuildJob and a CleanupJob ran to their ends, an update of each undelivered
C12_Witness ==
    /\ \E t \in worker_tasks :
          /\ t.job.shape = "BuildJob" /\ t.pc = "done"
          /\ StatusesSent(t.id) = <<"building", "success">>
          /\ ~status_sent[t.id][2].delivered
    /\ \E t \in worker_tasks :
          /\ t.job.shape = "CleanupJob" /\ t.pc = "done"
          /\ ~status_sent[t.id][1].delivered

\* in a route list, no route with a match clause comes after a route without one
CatchAllLast(routes) ==
    \A i, j \in 1..Len(routes) :
        (i < j /\ is_none(routes[i].match)) => is_none(routes[j].match)

\* C16: the route list starts with its catch-all, if it has one, last; after any
\* sequence of route installs and removals by the Worker no route with a match
\* clause sits at an index greater than the catch-all's.
C16_CatchAllStaysLast == CatchAllLast(caddy_routes)

\* the directory holds all the files of one build and nothing else
HoldsOneBuild(entries, name) ==
    /\ exists(entries, name)
    /\ unwrap(entries[name]).is_dir
    /\ \E id \in DOMAIN status_sent : unwrap(entries[name]).files = {<<id, "all">>}

\* C17: publication is atomic from the route's standpoint: at every moment at
\* which the proxy has a route for a site, on a first deploy as on a redeploy, the
\* directory that route serves holds the complete output of one build; a job
\* installs its route only after its copy completed, and a job whose copy failed
\* installs none.
C17_AtomicPublication ==
    /\ \A i \in 1..Len(caddy_routes) :
          is_some(caddy_routes[i].root)
             => HoldsOneBuild(sites_dir, unwrap(caddy_routes[i].root))
    /\ \A t \in worker_tasks :
          (t.job.shape = "BuildJob" /\ t.pc \in {"add_caddy_route", "ensure_route"})
             => \E k \in 1..Len(t.steps) :
                    t.steps[k] = [step |-> "copy_dir_recursive", ok |-> TRUE]

\* the steps a build has to have made, with success, for its site to be deployed
StepsOfBuild ==
    {"create_work_dir", "clone_repository", "run_build", "copy_dir_recursive",
     "configure_caddy_route"}
    \cup (IF worker_run.cloudflare_enabled THEN {"ensure_route"} ELSE {})

\* C18: a build job reports success only if every step succeeded: clone, build,
\* publish, route install and, when the tunnel is enabled, ensure_route; a failure
\* at any of them is reported as failed with the error message, and no step of the
\* job runs after the failed one.
C18_SuccessOnlyIfAllSteps ==
    \A t \in worker_tasks :
        t.job.shape = "BuildJob" =>
           /\ \A k \in 1..Len(t.steps) : ~t.steps[k].ok => k = Len(t.steps)
           /\ t.pc = "done" =>
                 LET reported == status_sent[t.id][2].update
                     failed == \E k \in 1..Len(t.steps) : ~t.steps[k].ok
                 IN  /\ reported.status = "success" =>
                           /\ ~failed
                           /\ \A s \in StepsOfBuild : \E k \in 1..Len(t.steps) : t.steps[k].step = s
                     /\ failed => /\ reported.status = "failed"
                                  /\ is_some(reported.error_message)

\* C19: at every moment every published site directory, that is every directory a
\* route of the proxy serves, carries exactly its own metadata: the SiteMetadata
\* (site_id, domain) of the build that published it, written after the copy.
C19_PublishedSiteHasMetadata ==
    \A i \in 1..Len(caddy_routes) :
        (is_some(caddy_routes[i].root) /\ exists(sites_dir, unwrap(caddy_routes[i].root)))
           => read_site_metadata(sites_dir, unwrap(caddy_routes[i].root))
                 = Some(SiteMetadata(unwrap(caddy_routes[i].id), unwrap(caddy_routes[i].match)))

\* nothing of sites_dir is looked at and no route is installed before the proxy's
\* /config/ answered with success
NoScanBeforeReady ==
    (worker_run.scanned # {} \/ worker_run.entries # {} \/ worker_run.restored > 0)
       => worker_run.ready

\* restoration is skipped only after CADDY_READY_TIMEOUT of polling without an answer
SkippedAfterTimeout ==
    worker_run.skipped =>
       /\ ~worker_run.ready
       /\ worker_run.elapsed >= CADDY_READY_TIMEOUT
       /\ worker_run.scanned = {}
       /\ worker_run.pc \in {"bind", "serving", "exited"}

\* the site directories holding the output of a build
PublishedSites ==
    {name \in SiteNames :
        /\ exists(sites_dir, name)
        /\ unwrap(sites_dir[name]).is_dir
        /\ \E file \in unwrap(sites_dir[name]).files : file[2] = "all"}

\* restore_all_routes ran to its end and every configure_caddy_route it made returned Ok
RestoredWithoutError ==
    /\ worker_run.ready
    /\ worker_run.scanned = {name \in SiteNames : exists(sites_dir, name)}
    /\ worker_run.restored =
          Cardinality({name \in worker_run.scanned :
                          /\ unwrap(sites_dir[name]).is_dir
                          /\ is_some(read_site_metadata(sites_dir, name))})

\* once the Worker serves after a restoration without error, the proxy has a route
\* for every site published before the restart
PublishedSitesServed ==
    (worker_run.pc = "serving" /\ RestoredWithoutError) =>
       \A name \in PublishedSites :
           \E i \in 1..Len(caddy_routes) : caddy_routes[i].root = Some(site_dir_of(name))

\* C20: on Worker start nothing is scanned and no route installed before the
\* proxy's /config/ answered; without an answer within 60 s, polled every 500 ms,
\* restoration is skipped; otherwise every subdirectory of sites_dir with metadata
\* gets its route again, so that every site published before a restart is served
\* again after it.
C20_StartupRecovery == NoScanBeforeReady /\ SkippedAfterTimeout /\ PublishedSitesServed

(***************************************************************************)
(* Claims about removal, the workers table and the monitor.                *)
(***************************************************************************)
HasRoute(routes, id) == \E i \in 1..Len(routes) : routes[i].id = Some(id)

\* the worker task t as it is after the step
AfterW(t) == CHOOSE t2 \in worker_tasks' : t2.id = t.id

\* the errors of a DELETE that the proxy did not answer, or answered with 500
RemoveErrors == {<<"F", "a", "i", "l", "e", "d", " ", "t", "o", " ", "r", "e", "m", "o", "v", "e", " ", "C", "a", "d", "d", "y", " ", "r", "o", "u", "t", "e">>, <<"C", "a", "d", "d", "y", " ", "A", "P", "I", " ", "e", "r", "r", "o", "r", " ", "5", "0", "0">>}

\* C21: deleting what is absent succeeds.  A cleanup that asks the proxy to remove a
\* route it does not have (answer 404) goes on as after a removal, unless the
\* request itself failed or the proxy answered 500; with no site directory it then
\* returns Ok without touching sites_dir, and the update it sends is 'cleaned'.  No
\* step of a cleanup of a site that has neither route nor directory changes the
\* routes or sites_dir, so a second run leaves what the first left.
C21_AbsentIsSuccess ==
    [][\A t \in worker_tasks :
          (t.job.shape = "CleanupJob" /\ \E t2 \in worker_tasks' : t2.id = t.id /\ t2 # t) =>
             /\ (t.pc = "remove_caddy_route" /\ ~HasRoute(caddy_routes, t.site_id)) =>
                   /\ UNCHANGED caddy_routes
                   /\ \/ AfterW(t).pc = "remove_site_dir" /\ is_none(AfterW(t).result)
                      \/ /\ AfterW(t).pc = "send_result"
                         /\ ~unwrap(AfterW(t).result).ok
                         /\ unwrap(AfterW(t).result).value \in RemoveErrors
             /\ (t.pc = "remove_site_dir" /\ ~exists(sites_dir, site_dir_of(t.site_id))) =>
                   /\ UNCHANGED sites_dir
                   /\ AfterW(t).pc = "send_result"
                   /\ unwrap(AfterW(t).result).ok
             /\ (t.pc = "send_result" /\ unwrap(t.result).ok) =>
                   StatusesSent(t.id)' = <<"cleaned">>]_vars

\* two cleanups of the same site, neither of which found a route or a directory,
\* both ended with 'cleaned'
C21_Witness ==
    /\ Cardinality(worker_tasks) = 2
    /\ \A t \in worker_tasks :
          /\ t.job.shape = "CleanupJob" /\ t.pc = "done"
          /\ t.steps = <<[step |-> "remove_caddy_route", ok |-> TRUE]>>
          /\ StatusesSent(t.id) = <<"cleaned">>
    /\ \A name \in SiteNames : ~exists(sites_dir, name)

\* the (zone, endpoint) pairs of the enabled rows, and those of a worker map
EnabledPairs(table) == {<<w.environment, w.endpoint>> : w \in EnabledWorkers(table)}
PairsOf(workers_map) == {<<z, workers_map[z]>> : z \in DOMAIN workers_map}

\* C22: whatever the table held after earlier syncs, a process that starts with the
\* worker map M', the empty map included, leaves the enabled workers exactly the
\* keys of M', each with the endpoint M' gives it; a sync that fails leaves the
\* table as it was (all of a sync or none of it).
C22_SyncExact ==
    [][pool'.starts # pool.starts =>
          IF pool'.last.op = "start"
          THEN EnabledPairs(workers') = PairsOf(pool'.last.workers)
          ELSE UNCHANGED workers]_vars

ZoneEnabled(table, zone) == \E w \in table : w.environment = zone /\ w.enabled

\* C23: a disabled worker is invisible.  For a zone that has no enabled row (never
\* synced, or disabled by the last sync) get_worker returns none and nothing is
\* dispatched, and a signed heartbeat request changes no row and is answered 404
\* (500 when the database fails); for a zone a sync enabled get_worker returns its
\* row.  At every moment a zone has at most one row, hence at most one enabled worker.
C23_DisabledInvisible ==
    /\ [][pool'.calls # pool.calls =>
             LET call == pool'.last
             IN  IF ZoneEnabled(workers, call.zone)
                 THEN /\ call.op = "get_worker" =>
                            /\ is_some(call.found)
                            /\ unwrap(call.found) \in EnabledWorkers(workers)
                            /\ call.dispatched_to = Some(unwrap(call.found).endpoint)
                      /\ call.op = "heartbeat" => call.code \in {200, 500}
                 ELSE /\ UNCHANGED workers
                      /\ call.op = "get_worker" =>
                            is_none(call.found) /\ is_none(call.dispatched_to)
                      /\ call.op = "heartbeat" => call.code \in {404, 500}]_vars
    /\ [](\A w1, w2 \in workers : w1.environment = w2.environment => w1 = w2)

\* a zone that one sync enabled and a later one disabled is asked for, by a
\* heartbeat answered 404, while another zone is enabled
C23_Witness ==
    /\ pool.last.op = "heartbeat" /\ pool.last.code = 404
    /\ \E w \in workers : w.environment = pool.last.zone /\ ~w.enabled
    /\ \E w \in workers : w.enabled
    /\ pool.starts >= 2

\* the last_seen of the row of a zone, None when the zone has no row
LastSeen(table, zone) ==
    IF \E w \in table : w.environment = zone
    THEN Some((CHOOSE w \in table : w.environment = zone).last_seen)
    ELSE None

\* the monitor has probed in this step: one more attempt of the startup pass, or one
\* entry less to check in a periodic pass
ProbeStep ==
    /\ monitor.pc \in {"initial_probe", "check_all_workers"}
    /\ monitor'.pc # "off"
    /\ monitor'.attempt > monitor.attempt \/ monitor'.todo # monitor.todo

\* C24: a failed health probe, in the startup pass or in the periodic checks,
\* changes nothing in the table: the worker stays enabled with the same endpoint and
\* its last_seen does not move.  The last_seen of a zone changes only in a step that
\* is a probe of that zone answered 2xx, a heartbeat request for that zone, or a sync.
C24_FailedProbeChangesNothing ==
    [][/\ (ProbeStep /\ monitor'.last.status # Some(200)) => UNCHANGED workers
       /\ \A zone \in PoolZones :
             LastSeen(workers', zone) # LastSeen(workers, zone) =>
                \/ /\ ProbeStep
                   /\ monitor'.last.zone = zone
                   /\ monitor'.last.status = Some(200)
                \/ /\ pool'.calls # pool.calls
                   /\ pool'.last.op = "heartbeat"
                   /\ pool'.last.zone = zone
                \/ /\ pool'.starts # pool.starts
                   /\ pool'.last.op = "start"]_vars

\* a probe failed at a moment at which a stamp would have moved last_seen, in the
\* startup pass and in a periodic check
C24_Witness ==
    /\ monitor.last.op = "probe"
    /\ monitor.last.status # Some(200)
    /\ monitor.pc = "check_all_workers"
    /\ \E w \in workers :
          w.environment = monitor.last.zone /\ w.enabled /\ w.last_seen < pool.now

\* the monitor's startup pass is probing its workers
InStartupPass == monitor.pc \in {"initial_check", "initial_probe", "initial_sleep"}

\* the delays slept so far before the attempts on one worker: the first is
\* initial_retry_delay, each next one the double of the one before, cut at max_retry_delay
BackoffWaits(m) ==
    /\ \A i \in 1..Len(m.waits) :
          /\ m.waits[i] <= m.config.max_retry_delay
          /\ m.waits[i] = IF i = 1 THEN m.config.initial_retry_delay
                          ELSE min(2 * m.waits[i - 1], m.config.max_retry_delay)
    /\ m.pc = "initial_probe" => Len(m.waits) = m.attempt
    /\ m.pc = "initial_sleep" => Len(m.waits) = m.attempt - 1

\* what the startup pass and the periodic checks do whichever answer ends the probing
\* of a worker: at most max_retries attempts, the waits of the backoff, no worker taken
\* twice in one pass, the pass over every worker, the startup pass ending and the
\* periodic pass starting again and again
MonitorSchedule ==
    /\ [](InStartupPass => monitor.attempt <= monitor.config.max_retries)
    /\ [](InStartupPass => BackoffWaits(monitor))
    /\ [][(monitor.pc = "initial_check" /\ monitor'.pc = "initial_probe")
              => unwrap(monitor'.zone) \notin monitor.probed]_vars
    /\ [][(monitor.pc = "check_all_workers" /\ ProbeStep)
              => monitor'.last.zone \notin monitor.probed]_vars
    /\ [][(monitor.pc \in {"initial_check", "check_all_workers"} /\ monitor'.pc = "tick")
              => monitor.probed = DOMAIN monitor.workers]_vars
    /\ <>(monitor.pc = "tick")
    /\ []<>(monitor.pc = "check_all_workers" /\ monitor.todo = DOMAIN monitor.workers)
    /\ []<>(monitor.pc = "check_all_workers" /\ monitor.todo = {})

\* the startup pass stops probing a worker at its first 2xx answer, and the worker that
\* answers 2xx on its third attempt, after waits of 1 s and 2 s, has its last_seen updated
C25_StopsAtFirst2xx ==
    /\ MonitorSchedule
    /\ [][(monitor.pc = "initial_probe" /\ ProbeStep /\ monitor'.last.status = Some(200))
              => /\ monitor'.pc = "initial_check"
                 /\ monitor'.attempt = 3 =>
                       /\ monitor'.waits = <<1, 2>>
                       /\ LastSeen(workers', monitor'.last.zone) = Some(pool.now)]_vars

\* C25: the startup pass probes each configured worker at most max_retries times,
\* sleeps between two attempts a delay that starts at initial_retry_delay, doubles after
\* each failure and never exceeds max_retry_delay, and always ends; it stops probing a
\* worker at the first attempt that succeeds, which is a 2xx answer followed by an
\* update of last_seen that the database accepts, while a 2xx answer whose update fails
\* is retried like any failure; the worker whose third attempt succeeds, after waits of
\* 1 s and 2 s, has its last_seen updated.  After the startup pass every pass of the
\* periodic check probes every worker once, and the passes never end.
C25_StopsAtFirstSuccess ==
    /\ MonitorSchedule
    /\ [][(monitor.pc = "initial_probe" /\ ProbeStep)
              => /\ monitor'.last.ok =>
                       /\ monitor'.last.status = Some(200)
                       /\ monitor'.pc = "initial_check"
                       /\ monitor'.attempt = 3 =>
                             /\ monitor'.waits = <<1, 2>>
                             /\ LastSeen(workers', monitor'.last.zone) = Some(pool.now)
                 /\ ~monitor'.last.ok =>
                       /\ UNCHANGED workers
                       /\ monitor'.pc = IF monitor'.attempt >= monitor.config.max_retries
                                        THEN "initial_check" ELSE "initial_sleep"]_vars

\* a worker has answered on its third attempt after two failures and waits of 1 s and
\* 2 s, at a moment later than its sync, and its last_seen is that moment
C25_Witness ==
    /\ monitor.pc = "initial_check"
    /\ monitor.last.op = "probe" /\ monitor.last.ok
    /\ monitor.attempt = 3 /\ monitor.waits = <<1, 2>>
    /\ pool.now > 0
    /\ LastSeen(workers, monitor.last.zone) = Some(pool.now)

\* the stores made for one job_id, in order
StoresOf(job_id) == SelectSeq(calc.stores, LAMBDA s : s.job_id = job_id)

\* COALESCE over a sequence of stores: the last comment id that is not null
LastCommentId(stores) ==
    IF \E i \in 1..Len(stores) : is_some(stores[i].github_comment_id)
    THEN stores[CHOOSE i \in 1..Len(stores) :
                   /\ is_some(stores[i].github_comment_id)
                   /\ \A j \in (i + 1)..Len(stores) : is_none(stores[j].github_comment_id)
               ].github_comment_id
    ELSE None

\* C26: after any sequence of store_job_context a job_id that was stored has exactly
\* one row; its installation id, org, repo and commit sha are those of its first store
\* and its comment id is the last non-null one stored for it, or null if there was
\* none; a job_id never stored has no row.  So a store on a job_id that has a row
\* changes nothing but the comment id, and keeps it when the new one is null.
C26_StoreKeepsFirstContext ==
    \A job_id \in StoreJobIds :
       LET stores == StoresOf(job_id)
           rows == {r \in job_context : r.job_id = job_id}
       IN  IF stores = <<>> THEN rows = {}
           ELSE rows = {[stores[1] EXCEPT !.github_comment_id = LastCommentId(stores)]}

\* three stores for one job: a comment id, then another context with another comment
\* id, then a third context with a null comment id
C26_Witness ==
    /\ Len(StoresOf(1)) = 3
    /\ StoresOf(1)[1].github_comment_id = Some(1)
    /\ StoresOf(1)[2].github_comment_id = Some(2)
    /\ StoresOf(1)[3].github_comment_id = None
    /\ StoresOf(1)[2].commit_sha # StoresOf(1)[1].commit_sha
    /\ StoresOf(1)[3].installation_id # StoresOf(1)[1].installation_id
    /\ \E r \in job_context : r.github_comment_id = Some(2) /\ r.commit_sha = StoresOf(1)[1].commit_sha

\* C27: no error returned by clone_repository contains the git token, whatever git
\* printed on stderr at the clone, the fetch or the checkout, and so no error_message
\* of a failed status update contains it.
C27_NoTokenInErrors ==
    /\ is_some(calc.error) => ~contains(unwrap(calc.error), calc.token)
    /\ is_some(calc.error_message) => ~contains(unwrap(calc.error_message), calc.token)

\* the errors of the steps that replace the token are free of it
C27_CloneAndFetchRedacted ==
    (is_some(calc.error) /\ ~starts_with(unwrap(calc.error), <<"g", "i", "t", " ", "c", "h", "e", "c", "k", "o", "u", "t", " ", "f", "a", "i", "l", "e", "d", ":", " ">>))
        => ~contains(unwrap(calc.error), calc.token)

\* a pattern with every {repo} and every {pr} substituted, read once from left to right
RECURSIVE Substituted(_, _, _)
Substituted(pattern, repo, pr) ==
    IF pattern = <<>> THEN <<>>
    ELSE IF starts_with(pattern, <<"{", "r", "e", "p", "o", "}">>)
    THEN repo \o Substituted(from_index(pattern, Len(<<"{", "r", "e", "p", "o", "}">>)), repo, pr)
    ELSE IF starts_with(pattern, <<"{", "p", "r", "}">>)
    THEN pr \o Substituted(from_index(pattern, Len(<<"{", "p", "r", "}">>)), repo, pr)
    ELSE <<Head(pattern)>> \o Substituted(Tail(pattern), repo, pr)

\* the main domain of a config: the explicit domain with its subdomain, else the pattern
MainDomainOf(config, repo) ==
    IF is_some(config.domain)
    THEN Some(IF is_some(config.subdomain)
              THEN unwrap(config.subdomain) \o <<".">> \o unwrap(config.domain)
              ELSE unwrap(config.domain))
    ELSE IF is_some(config.domain_pattern)
    THEN Some(Substituted(unwrap(config.domain_pattern), to_lowercase(repo), <<"{", "p", "r", "}">>))
    ELSE None

\* C28: resolve_domain returns subdomain.domain, or domain when no subdomain is set,
\* whenever domain is set, whatever domain_pattern is; otherwise domain_pattern with
\* {repo} replaced by the lower-cased repo, whatever subdomain is; otherwise nothing.
\* resolve_pr_domain returns pr_pattern with {repo} and {pr} substituted when
\* pr_pattern is set, and otherwise pr-{pr}-{lower(repo)}.{main domain} exactly when a
\* main domain resolves.
C28_ResolveDomains ==
    calc.op = "resolve" =>
       /\ is_some(calc.main) => unwrap(calc.main) = MainDomainOf(calc.config, calc.repo)
       /\ is_some(calc.pr) =>
             unwrap(calc.pr) =
                IF is_some(calc.config.pr_pattern)
                THEN Some(Substituted(unwrap(calc.config.pr_pattern), to_lowercase(calc.repo),
                                      to_string(calc.pr_number)))
                ELSE IF is_some(MainDomainOf(calc.config, calc.repo))
                THEN Some(<<"p", "r", "-">> \o to_string(calc.pr_number) \o <<"-">> \o to_lowercase(calc.repo)
                          \o <<".">> \o unwrap(MainDomainOf(calc.config, calc.repo)))
                ELSE None

\* a config with domain, subdomain and domain_pattern set and no pr_pattern, resolved
\* for repo Web and PR 42
C28_Witness ==
    /\ calc.op = "resolve"
    /\ is_some(calc.config.domain_pattern) /\ is_none(calc.config.pr_pattern)
    /\ calc.main = Some(Some(<<"w", "w", "w", ".", "n", "x", "m", ".", "r", "s">>))
    /\ calc.pr = Some(Some(<<"p", "r", "-", "4", "2", "-", "w", "e", "b", ".", "w", "w", "w", ".", "n", "x", "m", ".", "r", "s">>))

\* the options of a DeployConfig
OptionsOf(config) == [o \in MergeOptions |->
    CASE o = "zone" -> config.zone
      [] o = "domain_pattern" -> config.domain_pattern
      [] o = "pr_pattern" -> config.pr_pattern
      [] o = "domain" -> config.domain
      [] o = "subdomain" -> config.subdomain
      [] o = "build_type" -> config.build_type
      [] o = "build_command" -> config.build_command
      [] o = "output_dir" -> config.output_dir]

\* C29: merge is right-biased field by field and idempotent: in merge(a, b) every
\* option that b sets has b's value, every option that b leaves unset keeps a's value,
\* enabled is b's (the repo config's), and merging b in a second time changes nothing.
C29_MergeRightBiased ==
    calc.op = "merge" =>
       /\ is_some(calc.merged) =>
             /\ \A o \in MergeOptions :
                   OptionsOf(unwrap(calc.merged))[o] =
                      IF is_some(OptionsOf(calc.b)[o]) THEN OptionsOf(calc.b)[o]
                      ELSE OptionsOf(calc.a)[o]
             /\ unwrap(calc.merged).enabled = calc.b.enabled
       /\ is_some(calc.again) => calc.again = calc.merged

\* a enabled with every option set, b disabled with only the zone set, merged twice
C29_Witness ==
    /\ calc.op = "merge"
    /\ calc.a.enabled /\ ~calc.b.enabled
    /\ \A o \in MergeOptions : is_some(OptionsOf(calc.a)[o])
    /\ \A o \in MergeOptions : is_some(OptionsOf(calc.b)[o]) <=> o = "zone"
    /\ is_some(calc.again)
    /\ unwrap(calc.again).zone = calc.b.zone
    /\ unwrap(calc.again).domain = calc.a.domain

\* the update that task t sends in this step, if it sends one
SentBy(t) == status_sent'[t.id][Len(status_sent'[t.id])].update
Sends(t) == t.pc = "send_result" /\ Len(status_sent'[t.id]) > Len(status_sent[t.id])

\* C30: the deployed URL that the Worker reports on success is https:// followed by
\* the job's domain, the hostname of the route it installed, for PR jobs and for
\* main-branch jobs alike.
C30_DeployedUrlIsDomain ==
    [][\A t \in worker_tasks :
          (Sends(t) /\ SentBy(t).status = "success")
              => SentBy(t).deployed_url = Some(<<"h", "t", "t", "p", "s", ":", "/", "/">> \o t.job.domain)]_vars

\* the URL reported for a main-branch job is https:// followed by its domain, and the
\* one reported for a PR job has pr-{pr}-{lower(repo)}. put in front of its domain
C30_ReportedUrls ==
    [][\A t \in worker_tasks :
          (Sends(t) /\ SentBy(t).status = "success")
              => SentBy(t).deployed_url =
                    Some(IF is_none(t.job.pr_number) THEN <<"h", "t", "t", "p", "s", ":", "/", "/">> \o t.job.domain
                         ELSE <<"h", "t", "t", "p", "s", ":", "/", "/", "p", "r", "-">> \o to_string(unwrap(t.job.pr_number)) \o <<"-">>
                              \o to_lowercase(t.job.repo_name) \o <<".">> \o t.job.domain)]_vars

(***************************************************************************)
(* The tunnel, the firewall, and interleavings.                            *)
(***************************************************************************)
\* the indexes of the rules of hostname in an ingress list
RulesOf(ingress, hostname) == {i \in 1..Len(ingress) : ingress[i].hostname = Some(hostname)}

\* hostname has exactly one rule, every rule without hostname comes after it, and the
\* last rule has no hostname
WellRouted(ingress, hostname) ==
    /\ Cardinality(RulesOf(ingress, hostname)) = 1
    /\ \A i \in RulesOf(ingress, hostname) :
          \A j \in 1..Len(ingress) : is_none(ingress[j].hostname) => i < j
    /\ ingress # <<>> /\ is_none(ingress[Len(ingress)].hostname)

\* the state of call c after this step
AfterCall(c) == CHOOSE n \in tunnel'.calls : n.id = c.id

\* C31: the step in which ensure_tunnel_ingress of ensure_route(hostname) returns Ok
\* leaves an ingress list in which the hostname has exactly one rule, before the
\* catch-all, and whose last rule is a catch-all, the synthetic http_status:404 one
\* when the list it read had none; when the list it read holds the hostname already
\* the list is not changed and no PUT is sent, so a second call changes nothing.
C31_EnsureTunnelIngress ==
    [][\A c \in tunnel.calls :
          (is_none(c.ingress_result) /\ AfterCall(c).ingress_result = Some("Ok"))
             => /\ WellRouted(tunnel'.ingress, c.hostname)
                /\ LET read == unwrap(AfterCall(c).read)
                   IN  /\ ingress_has(read, c.hostname)
                          => UNCHANGED tunnel.ingress /\ UNCHANGED tunnel.puts
                       /\ ~ingress_has(read, c.hostname)
                          => /\ tunnel'.puts = tunnel.puts + 1
                             /\ \A i \in 1..Len(read) :
                                   \E j \in 1..Len(tunnel'.ingress) : tunnel'.ingress[j] = read[i]
                             /\ Len(tunnel'.ingress) =
                                   Len(read) + (IF has_catch_all(read) THEN 1 ELSE 2)
                             /\ ~has_catch_all(read)
                                   => tunnel'.ingress[Len(tunnel'.ingress)] = SyntheticCatchAll]_vars

\* a second call for a hostname has returned without a PUT after a first one put the
\* hostname into a list that had no catch-all
C31_Witness ==
    \E c1, c2 \in tunnel.calls :
       /\ c1.id < c2.id /\ c1.hostname = c2.hostname
       /\ c1.put /\ c1.read = Some(<<>>)
       /\ c2.result = Some("Ok") /\ ~c2.put
       /\ tunnel.puts = 1
       /\ tunnel.ingress = <<TunnelIngressRule(Some(c1.hostname), ServiceUrl), SyntheticCatchAll>>

\* C39: two ensure_route calls for different hostnames that overlap in time both end
\* with their hostname present in the ingress list: no hostname added by one call is
\* lost through the PUT of the other.
C39_NoLostHostname ==
    \A c \in tunnel.calls :
       c.ingress_result = Some("Ok") => ingress_has(tunnel.ingress, c.hostname)

\* calls that do not overlap lose nothing: a PUT that was computed from the list as it
\* is when the PUT arrives keeps every hostname
C39_SequentialKeeps ==
    [][\A c \in tunnel.calls :
          (c.pc = "update_tunnel_config" /\ AfterCall(c).put /\ c.read = Some(tunnel.ingress))
             => \A h \in TunnelHostnames \cup {ForeignHostname} :
                   ingress_has(tunnel.ingress, h) => ingress_has(tunnel'.ingress, h)]_vars

\* index of the first occurrence of a rule in a chain, 0 when it is not there
FirstIndex(list, x) ==
    IF seq_has(list, x) THEN CHOOSE i \in 1..Len(list) : list[i] = x /\ \A j \in 1..(i - 1) : list[j] # x
    ELSE 0

\* the chain isolates subnet: the ACCEPT for subnet to subnet is there, each of the
\* three DROPs is there and after it, and FORWARD jumps to the chain for the subnet
Isolates(subnet) ==
    /\ is_some(iptables.chain)
    /\ LET chain == unwrap(iptables.chain)
           accept == FirstIndex(chain, IptablesRule(subnet, subnet, "ACCEPT"))
       IN  /\ accept > 0
           /\ \A r \in 1..3 :
                 /\ seq_has(chain, IptablesRule(subnet, RFC1918_RANGES[r], "DROP"))
                 /\ \A i \in 1..Len(chain) :
                       chain[i] = IptablesRule(subnet, RFC1918_RANGES[r], "DROP") => accept < i
    /\ seq_has(iptables.forward, JumpRule(subnet))

NoDuplicateRule ==
    /\ is_some(iptables.chain) =>
          \A i, j \in 1..Len(unwrap(iptables.chain)) :
             unwrap(iptables.chain)[i] = unwrap(iptables.chain)[j] => i = j
    /\ \A i, j \in 1..Len(iptables.forward) : iptables.forward[i] = iptables.forward[j] => i = j

\* C32: whenever ensure_build_network has returned Ok on a host where firewall changes
\* are permitted, the isolation chain holds, for the subnet of the build network, the
\* ACCEPT for subnet to subnet before the DROPs toward 10.0.0.0/8, 172.16.0.0/12 and
\* 192.168.0.0/16, and FORWARD jumps to the chain for that subnet, whether the chain
\* existed before or not; and no rule is there twice.
C32_ChainIsolatesBuildSubnet ==
    iptables.permitted =>
       /\ \A c \in iptables.calls :
             c.result = Some("Ok") => Isolates(unwrap(iptables.build_network))
       /\ NoDuplicateRule

\* a call that made the chain itself has, when it returns, the rules of its subnet and
\* the jump in place
C32_FreshChainIsolates ==
    [][\A c \in iptables.calls :
          (c.created /\ c.pc # "done" /\ (CHOOSE n \in iptables'.calls : n.id = c.id).pc = "done")
             => Isolates(unwrap(c.subnet))']_vars


(***************************************************************************)
(* Events that Central ignores.                                            *)
(***************************************************************************)
HandledActions == {"opened", "synchronize", "reopened", "closed"}

\* a ping, an event of unknown type, a push to a branch other than main and master
IgnoredAtOnce(t) ==
    \/ t.event.kind \in {"Ping", "Unknown"}
    \/ /\ t.event.kind = "Push"
       /\ t.event.payload.git_ref \notin {"refs/heads/main", "refs/heads/master"}

\* a pull_request event whose action has no arm of its own
OtherAction(t) ==
    t.event.kind = "PullRequest" /\ t.event.payload.action \notin HandledActions

\* what process_webhook_event can write to, comment on, or send
Untouched ==
    UNCHANGED <<authorized_orgs, workers, pr_comments, job_context, deployment_status,
                gh_comments, worker_jobs, status_tasks>>

\* C33: a ping, an unknown event, a pull_request action
\* other than opened, synchronize, reopened or closed, a push to another branch, and
\* an event whose merged config is absent or not deployable all end without error and
\* change nothing.
C33_IgnoredEndsOk ==
    [][\A t \in tasks \ tasks' :
          (t.pc # "done" /\ (IgnoredAtOnce(t) \/ OtherAction(t))) =>
              /\ Untouched
              /\ After(t).posts = t.posts
              /\ After(t).comment_id = t.comment_id
              /\ After(t).pc = "done" => After(t).outcome = "ignored"]_vars

\* C33, amended: a ping, an unknown event and a push to another branch end at once
\* with Ok; a task gets past the config fetch only with a deployable config and ends
\* there with Ok or with the error of the installation id, the token or the fetch; a
\* pull_request with another action ends with Ok at the config or at the match on the
\* action, or with the error of a gate before it, and never reaches a comment or a
\* dispatch.  None of these steps writes a table, touches a comment or sends a job.
C33_IgnoredChangesNothing ==
    [][\A t \in tasks \ tasks' :
          /\ (t.pc # "done" /\ IgnoredAtOnce(t)) =>
                /\ Untouched
                /\ After(t).pc = "done" /\ After(t).outcome = "ignored"
                /\ After(t).posts = 0 /\ After(t).comment_id = None
          /\ t.pc = "start" =>
                /\ Untouched
                /\ After(t).posts = 0 /\ After(t).comment_id = None
                /\ \/ After(t).pc = "done" /\ After(t).outcome \in {"ignored", "nothing"}
                   \/ /\ After(t).pc = "get_authorized_org"
                      /\ is_some(After(t).deploy_config)
                      /\ is_deployable(unwrap(After(t).deploy_config))
                      /\ is_some(t.event.payload.installation)
          /\ (t.pc # "done" /\ OtherAction(t)) =>
                /\ Untouched
                /\ After(t).posts = 0 /\ After(t).comment_id = None
                /\ After(t).pc \in {"done", "get_authorized_org", "get_worker"}
                /\ After(t).pc = "done" => After(t).outcome \in {"ignored", "nothing"}
                /\ (After(t).pc = "done" /\ After(t).outcome = "ignored") =>
                      t.pc \in {"start", "get_worker"}]_vars

C33_Witness ==
    /\ \E t \in tasks : t.pc = "done" /\ t.outcome = "ignored"
    /\ \E t \in tasks : t.pc = "get_worker" /\ OtherAction(t)
    /\ pr_comments = {} /\ job_context = {} /\ worker_jobs = {} /\ gh_comments = <<>>

(***************************************************************************)
(* Two jobs that share the tracked comment.                                *)
(***************************************************************************)
\* the texts a comment can carry for the job that built commit sha
TextsOf(sha) ==
    {building_comment(sha)}
    \cup {unwrap(comment_body(u, [commit_sha |-> sha]))
          : u \in {x \in StatusUpdates : x.status \in {"success", "failed"}}}

\* C34: the tracked comment reflects the most recently dispatched job of the PR.  Job
\* 1 and then job 2 were dispatched and share comment 1, which carries job 2's
\* Building text: whatever status updates Central processes from there on, the
\* comment carries a text of job 2, never one of job 1.
C34_CommentReflectsLatestJob ==
    gh_comments[1].body \in TextsOf(CommitSha(2))

\* each update of the comment writes the text of the job the status update names
C34_UpdateWritesOwnJob ==
    [][\A s \in status_tasks \ status_tasks' :
          (s.pc = "update_comment" /\ gh_comments' # gh_comments) =>
              /\ s.update.job_id \in {1, 2}
              /\ gh_comments'[1].body \in TextsOf(CommitSha(s.update.job_id))
              /\ s.update.status \in {"success", "failed"}]_vars

(***************************************************************************)
(* Jobs of one site that overlap on the Worker.                            *)
(***************************************************************************)
\* the cleanup job id has sent its 'cleaned'
Cleaned(id) ==
    \E i \in 1..Len(status_sent[id]) : status_sent[id][i].update.status = "cleaned"

BuildsOf(site_id) == {b \in worker_tasks : b.job.shape = "BuildJob" /\ b.site_id = site_id}

\* C35: a cleaned site stays removed.  Once the cleanup of a site has reported
\* cleaned, and no build for that site was accepted after the cleanup, the site has
\* neither a directory in sites_dir nor a route: a build accepted before the cleanup
\* does not publish the site again.
C35_CleanedStaysRemoved ==
    \A t \in worker_tasks :
       (/\ t.job.shape = "CleanupJob"
        /\ Cleaned(t.id)
        /\ \A b \in BuildsOf(t.site_id) : b.id < t.id) =>
           /\ ~exists(sites_dir, site_dir_of(t.site_id))
           /\ ~HasRoute(caddy_routes, t.site_id)

\* with no build of the site on the Worker, a cleaned site has no directory and no
\* route
C35_CleanedAloneStaysRemoved ==
    \A t \in worker_tasks :
       (t.job.shape = "CleanupJob" /\ Cleaned(t.id) /\ BuildsOf(t.site_id) = {}) =>
           /\ ~exists(sites_dir, site_dir_of(t.site_id))
           /\ ~HasRoute(caddy_routes, t.site_id)

\* the route a build task installs
RouteOf(t) == CaddyRoute(t.site_id, site_dir_of(t.site_id), t.job.domain)

\* the tasks on the Worker are of different sites
DifferentSites == \A a, b \in worker_tasks : a.site_id = b.site_id => a = b

\* C36: the catch-all ordering survives interleaving.  With jobs of different sites
\* on the Worker, whatever the other job did to the route list between a task's read
\* of the catch-all's index and its positional PUT, the PUT finds its index valid
\* and leaves no route with a match clause behind the catch-all.
C36_OrderSurvivesInterleaving ==
    [][\A t \in worker_tasks \ worker_tasks' :
          (DifferentSites /\ t.pc = "add_caddy_route" /\ is_some(t.insert_index)) =>
              /\ is_some(put_at_index(caddy_routes, unwrap(t.insert_index), RouteOf(t)))
              /\ CatchAllLast(caddy_routes) => CatchAllLast(caddy_routes')]_vars

\* a positional PUT whose index is the catch-all's index in the list as it is when
\* the PUT arrives is valid and keeps the catch-all behind every matched route
C36_FreshIndexKeepsOrder ==
    [][\A t \in worker_tasks \ worker_tasks' :
          (/\ t.pc = "add_caddy_route" /\ is_some(t.insert_index)
           /\ t.insert_index = find_catch_all_index(caddy_routes)) =>
              /\ is_some(put_at_index(caddy_routes, unwrap(t.insert_index), RouteOf(t)))
              /\ CatchAllLast(caddy_routes) => CatchAllLast(caddy_routes')]_vars

\* the build task has ended and reported success
BuiltOk(t) == t.job.shape = "BuildJob" /\ t.pc = "done" /\ unwrap(t.result).ok

FilesOf(site_id) == unwrap(sites_dir[site_dir_of(site_id)]).files

\* C37: when two build jobs of one site ran on the Worker at the same time and both
\* have finished, the site's directory holds the complete output of exactly one of
\* them, with no file of the other, and it is the output of the job accepted last.
C37_LastBuildWins ==
    \A a, b \in worker_tasks :
       (BuiltOk(a) /\ BuiltOk(b) /\ a.site_id = b.site_id /\ a.id < b.id) =>
           /\ exists(sites_dir, site_dir_of(b.site_id))
           /\ FilesOf(b.site_id) = {<<b.id, "all">>}

\* a build that was the only one of its site on the Worker leaves its complete output
\* and nothing else
C37_SingleBuildPublishesItsOutput ==
    \A a \in worker_tasks :
       (BuiltOk(a) /\ BuildsOf(a.site_id) = {a} /\ \A c \in worker_tasks : c.site_id = a.site_id => c = a) =>
           /\ exists(sites_dir, site_dir_of(a.site_id))
           /\ FilesOf(a.site_id) = {<<a.id, "all">>}

OneRoutePerId(routes) ==
    \A i, j \in 1..Len(routes) :
        (is_some(routes[i].id) /\ routes[i].id = routes[j].id) => i = j

\* C38: at every moment the proxy's route list holds at most one route with a given
\* @id, also while two installs for one site interleave their delete-by-id and their
\* insert.
C38_AtMostOneRoutePerId == OneRoutePerId(caddy_routes)

\* an insert that finds no route of its site in the list keeps the ids distinct, and
\* so does every removal
C38_InsertAfterOwnDeleteKeepsIds ==
    [][\A t \in worker_tasks \ worker_tasks' :
          (/\ OneRoutePerId(caddy_routes)
           /\ t.pc = "add_caddy_route" => ~HasRoute(caddy_routes, t.site_id)) =>
              OneRoutePerId(caddy_routes')]_vars

(***************************************************************************)
(* The two .deploy.json files.                                             *)
(***************************************************************************)
Mentions(file, key) == is_some(file) /\ key \in unwrap(file).keys

\* the organization's file says enabled = false
OrgDisabled == Mentions(calc.org_file, "enabled") /\ ~unwrap(calc.org_file).enabled

\* C40: an organization-level enabled = false stays in force for every repository
\* whose own .deploy.json does not mention enabled: the merged config of such a
\* repository is not deployable, and the event does not go on to a dispatch.
C40_OrgDisableStaysInForce ==
    (calc.pc = "done" /\ OrgDisabled /\ ~Mentions(calc.repo_file, "enabled")) =>
        /\ ~is_deployable(unwrap(calc.deploy_config))
        /\ ~calc.proceeds

\* the organization's enabled = false is in force for a repository without a
\* .deploy.json; a repository file decides with the enabled it mentions, and with
\* true when it mentions none
C40_RepoFileDecides ==
    (calc.pc = "done" /\ OrgDisabled) =>
        /\ is_some(calc.deploy_config)
        /\ unwrap(calc.deploy_config).enabled =
              IF is_none(calc.repo_file) THEN FALSE
              ELSE IF Mentions(calc.repo_file, "enabled") THEN unwrap(calc.repo_file).enabled
              ELSE TRUE
        /\ calc.proceeds = is_deployable(unwrap(calc.deploy_config))

====
